---- MODULE Spec2Model ----
(***************************************************************************)
(* Verification model of the fighter-platformer simulation core.           *)
(*                                                                         *)
(* The repository holds three successive writings of the fighter state     *)
(* machine, and the model keeps them apart:                                *)
(*   - the interrupt-window machine of fighter_state.rs, fed by the input  *)
(*     buffer of input.rs and completed by the landing / airborne reaction *)
(*     of fighter.rs                      (specification Spec),            *)
(*   - the event machine of fighter.rs    (specification SpecEvents),      *)
(*   - PlayerStateMachine of main.rs      (specification SpecPSM).         *)
(* One simulated actor is followed through the phases of a fixed tick; a   *)
(* program counter names the system that runs next.                        *)
(*                                                                         *)
(* Stick vectors are pairs of integers in hundredths of the stick range.   *)
(***************************************************************************)
EXTENDS Integers, Sequences, FiniteSets, TLC

VARIABLES
    wiring,                   \* the state machine the schedule runs: rule, events, psm
    pc,                       \* the system of the tick that runs next
    state,                    \* FighterState / BasicState (variant name)
    airdodge_dir,             \* payload of FighterState::Airdodge(Vec2)
    frame,                    \* FrameCount.0 / PlayerStateMachine.frame_count
    facing,                   \* Facing.0 / PlayerStateMachine.facing
    props,                    \* state whose FighterStateTransition is attached
    stick,                    \* Control.stick
    action,                   \* Control.action            (BufferedInput<Action>)
    directional_action,       \* Control.directional_action
    held_actions,             \* Control.held_actions
    previous_held_actions,    \* Control.previous_held_actions
    previous_stick_positions, \* Control.previous_stick_positions (newest last)
    pressed,                  \* button events of this tick (value != 0)
    pending,                  \* systems of an unordered group still to run
    airborne,                 \* the Airborne marker component
    collision,                \* Collision event of this tick ("none" if none)
    ev_state,                 \* queue of FighterStateUpdate events
    intangible,               \* the Intangible marker component
    lemon_count,              \* LemonCount.0
    budget,                   \* input / environment changes still allowed
    last                      \* what the last system did (observation only)

VARIABLES
    velocity,                 \* Velocity.0
    ev_accelerate,            \* the AccelerateTowards event sent each tick
    friction,                 \* Friction.0
    target_velocity,          \* TargetHorizontalVelocity.0
    position,                 \* Transform.translation (x, y)
    collider,                 \* the Collider of the stage and its centre
    world,                    \* the components of every spawned entity
    overlaps,                 \* the pairs of hitbox groups found overlapping
    ev_hitbox,                \* HitboxCollision events of the tick
    ev_set_velocity,          \* SetVelocity events not yet read
    ev_add_velocity,          \* AddVelocity events not yet read
    hitboxes,                 \* two hitboxes, each a shape and its transform
    pass,                     \* their NearestPass, in both orders
    gravity,                  \* whether the actor carries the Gravity component
    pulled                    \* whether accelerate_from_gravity changed its
                              \* velocity on this tick

\* the variables of the systems that are followed on their own
entities ==
    << world, overlaps, ev_hitbox, ev_set_velocity, ev_add_velocity, hitboxes,
       pass >>

\* the same without the queues of velocity commands
entities_kept == << world, overlaps, ev_hitbox, hitboxes, pass >>

\* the variables update_gravity and accelerate_from_gravity leave alone
bodies ==
    << velocity, ev_accelerate, friction, target_velocity, position, collider,
       entities >>

apart == << bodies, gravity, pulled >>

vars == << wiring, pc, state, airdodge_dir, frame, facing, props, stick, action,
           directional_action, held_actions, previous_held_actions,
           previous_stick_positions, pressed, pending, airborne, collision,
           ev_state, intangible, lemon_count, budget, last, apart >>

-----------------------------------------------------------------------------
(* Bounds of the model.                                                    *)

\* frame-in-state at which the model stops following a state that has no
\* natural end (a state with a natural end is followed up to its end frame)
MaxFrame == 3
\* number of ticks on which the raw input or the physical support changes
MaxEvents == 2
\* the stick samples of a run of the input systems followed on their own
MaxSamples == 11

-----------------------------------------------------------------------------
(* Program constants.                                                      *)

BUFFER_SIZE == 8
SMASH_INPUT_MAX_DURATION == 4
STICK_HISTORY_SIZE == 30
HALF_CIRCLE_MAX_DURATION == 10
AIRDODGE_DURATION_FRAMES == 15
\* hundredths
AIRDODGE_INITIAL_SPEED == 1000
\* FighterProperties::jump_speed * 0.5_f32.sqrt(), hundredths
SHORT_HOP_SPEED == 707
AIRDODGE_INTANGIBLE_START == 4
AIRDODGE_INTANGIBLE_END == 15
TURNAROUND_DURATION_FRAMES == 8
RUN_TURNAROUND_DURATION_FRAMES == 8
CROUCH_TRANSITION_THRESHOLD_FRAME == 6
DEFAULT_LAND_CROUCH_DURATION == 6
DEFAULT_DASH_DURATION == 15
RUN_END_DURATION == 1
ATTACK_DURATION == 20
ATTACK_SHOOT_FRAME == 5
ATTACK_IASA == 10
MAX_LEMONS_AT_A_TIME == 3
\* CROUCH_THRESHOLD = 0.4, in hundredths
CROUCH_THRESHOLD == 40
\* SMASH_INPUT_THRESHOLD_DISTANCE_FROM_CENTRE = 0.99, squared, in hundredths
SMASH_THRESHOLD_SQ == 9801
\* the smash distance 0.5, squared, in hundredths
SMASH_DISTANCE_SQ == 2500
\* HALF_CIRCLE_INPUT_THRESHOLD_DISTANCE = 0.90, squared, in hundredths
HALF_CIRCLE_THRESHOLD_SQ == 8100

-----------------------------------------------------------------------------
(* Values.                                                                 *)

FighterStates ==
    { "Idle", "Crouch", "EnterCrouch", "ExitCrouch", "Turnaround",
      "RunTurnaround", "LandCrouch", "IdleAirborne", "JumpSquat", "Walk",
      "Dash", "Moonwalk", "Run", "RunEnd", "Airdodge", "Attack" }

\* Option::None of Option<FighterState>
NoState == "NoState"

\* BufferedInput::None
NoInput == [ kind |-> "None" ]

Actions == { "Jump", "Shield", "Attack" }

ZERO == << 0, 0 >>

\* the components of an actor at rest that no system has touched
ApartAtRest ==
    /\ velocity = ZERO
    /\ ev_accelerate = << >>
    /\ friction = 0
    /\ target_velocity = 0
    /\ position = ZERO
    /\ collider = [ normal |-> << 0, 1 >>, breadth |-> 800,
                    centre |-> << 0, -200 >> ]
    /\ world = << >>
    /\ overlaps = {}
    /\ ev_hitbox = << >>
    /\ ev_set_velocity = << >>
    /\ ev_add_velocity = << >>
    /\ hitboxes = << >>
    /\ pass = << >>
    /\ gravity = FALSE
    /\ pulled = FALSE

\* the stick samples the environment can deliver (already clamped); under
\* the wiring of fighter.rs, which reads the two axes of the stick
\* separately, also a tilt that is sideways-dominant and below the crouch
\* threshold
Sticks ==
    { ZERO, << 100, 0 >>, << -100, 0 >>, << 0, -100 >>, << 0, -30 >> }
        \cup ( IF wiring = "events" THEN { << -60, -50 >> } ELSE {} )

Flip(lr) == IF lr = "Left" THEN "Right" ELSE "Left"

FlipCardinal(d) ==
    CASE d = "Up" -> "Down"
      [] d = "Down" -> "Up"
      [] d = "Left" -> "Right"
      [] OTHER -> "Left"

Abs(n) == IF n < 0 THEN -n ELSE n

LengthSq(v) == v[1] * v[1] + v[2] * v[2]

DistanceSq(v, w) == (v[1] - w[1]) * (v[1] - w[1]) + (v[2] - w[2]) * (v[2] - w[2])

\* a direction that is sideways whenever the stick has left the vertical axis
get_cardinal_direction_Sideways(v) ==
    IF v = ZERO THEN "None"
    ELSE IF v[1] = 0
         THEN (IF v[2] > 0 THEN "Up" ELSE "Down")
         ELSE (IF v[1] > 0 THEN "Right" ELSE "Left")

\* Directed::get_cardinal_direction; "None" for the zero vector
get_cardinal_direction(v) ==
    IF v = ZERO THEN "None"
    ELSE IF Abs(v[2]) > Abs(v[1])
         THEN (IF v[2] > 0 THEN "Up" ELSE "Down")
         ELSE (IF v[1] > 0 THEN "Right" ELSE "Left")

\* CardinalDirection::horizontal; "None" for Up and Down
horizontal(d) == IF d \in { "Left", "Right" } THEN d ELSE "None"

\* Vec2::normalize_or_zero on the samples of Sticks (all are axis-aligned)
normalize_or_zero(v) ==
    IF v = ZERO THEN ZERO
    ELSE IF v[1] # 0 THEN << (IF v[1] > 0 THEN 100 ELSE -100), 0 >>
         ELSE << 0, (IF v[2] > 0 THEN 100 ELSE -100) >>

-----------------------------------------------------------------------------
(* fighter_state.rs: the states and their transition rules.                *)

\* FighterState::is_intangible
is_intangible(s, f) ==
    s = "Airdodge" /\ AIRDODGE_INTANGIBLE_START <= f /\ f <= AIRDODGE_INTANGIBLE_END

\* FighterState::is_grounded
is_grounded(s) ==
    s \in { "Idle", "LandCrouch", "JumpSquat", "Walk", "Turnaround",
            "RunTurnaround", "RunEnd", "Dash", "Run", "Moonwalk", "Crouch",
            "EnterCrouch", "ExitCrouch" }

\* FighterState::is_affected_by_gravity
is_affected_by_gravity(s) == s # "Airdodge"

\* Control::has_action
has_action(d, a) == d.action.kind = "Some" /\ d.action.value = a

\* or_else on Option<FighterState>
OrElse(a, b) == IF a # NoState THEN a ELSE b

try_dash(d) ==
    LET can_dash_same_direction ==
            d.state \notin { "Dash", "Run", "RunTurnaround", "RunEnd" }
    IN  IF /\ d.directional_action.kind = "Some"
           /\ d.directional_action.value.type = "Smash"
           /\ horizontal(d.directional_action.value.dir) # "None"
           /\ \/ horizontal(d.directional_action.value.dir) # d.facing
              \/ can_dash_same_direction
        THEN "Dash"
        ELSE NoState

try_moonwalk(d) ==
    IF /\ d.directional_action.kind = "Some"
       /\ d.directional_action.value.type = "HalfCircle"
       /\ << d.directional_action.value.dir, d.directional_action.value.rot >>
              \in { << "Left", "Clockwise" >>, << "Right", "CounterClockwise" >> }
    THEN "Moonwalk"
    ELSE NoState

try_jump(d) == IF has_action(d, "Jump") THEN "JumpSquat" ELSE NoState

try_turnaround(d) ==
    IF d.state = "Turnaround" THEN NoState
    ELSE IF /\ get_cardinal_direction(d.stick) # "None"
            /\ get_cardinal_direction(d.stick) = Flip(d.facing)
         THEN "Turnaround"
         ELSE NoState

try_run_turnaround(d) ==
    IF d.state = "RunTurnaround" THEN NoState
    ELSE IF /\ get_cardinal_direction(d.stick) # "None"
            /\ get_cardinal_direction(d.stick) = Flip(d.facing)
         THEN "RunTurnaround"
         ELSE NoState

try_walk(d) ==
    IF d.state = "Walk" THEN NoState
    ELSE IF /\ get_cardinal_direction(d.stick) # "None"
            /\ get_cardinal_direction(d.stick) = d.facing
         THEN "Walk"
         ELSE NoState

try_crouch(d) ==
    IF /\ get_cardinal_direction(d.stick) = "Down"
       /\ d.stick[2] < -CROUCH_THRESHOLD
    THEN "EnterCrouch"
    ELSE NoState

try_end_crouch(d) ==
    IF d.stick[2] >= -CROUCH_THRESHOLD THEN "ExitCrouch" ELSE NoState

try_end_run(d) ==
    IF horizontal(get_cardinal_direction(d.stick)) # "None" THEN NoState
    ELSE CASE d.state = "Run" -> "RunEnd"
           [] d.state = "RunEnd" -> "Idle"
           [] OTHER -> NoState

try_end_walk(d) ==
    IF horizontal(get_cardinal_direction(d.stick)) = "None" THEN "Idle" ELSE NoState

\* the Airdodge variant; its payload is AirdodgeDirection(d)
try_airdodge(d) == IF has_action(d, "Shield") THEN "Airdodge" ELSE NoState

AirdodgeDirection(d) == normalize_or_zero(d.stick)

try_attack(d) == IF has_action(d, "Attack") THEN "Attack" ELSE NoState

\* FighterStateTransition::default_idle_interrupt
default_idle_interrupt(d) ==
    OrElse(try_dash(d),
    OrElse(try_attack(d),
    OrElse(try_jump(d),
    OrElse(try_turnaround(d),
    OrElse(try_walk(d), try_crouch(d))))))

\* a run interrupt that starts with try_dash, as the idle interrupt does
default_run_interrupt_Dash(d) ==
    OrElse(try_dash(d),
    OrElse(try_jump(d),
    OrElse(try_crouch(d),
    OrElse(try_run_turnaround(d), try_end_run(d)))))

\* FighterStateTransition::default_run_interrupt
default_run_interrupt(d) ==
    OrElse(try_jump(d),
    OrElse(try_crouch(d),
    OrElse(try_run_turnaround(d), try_end_run(d))))

\* the state_getter of the Attack rule installed by update_state_transition_rules
megaman_attack_interrupt(d) ==
    IF d.lemon_count >= MAX_LEMONS_AT_A_TIME THEN NoState
    ELSE IF has_action(d, "Attack") THEN "Attack" ELSE NoState

\* StateEnd::None and Option<IASA>::None
NoEnd == [ kind |-> "None" ]
NoIASA == [ kind |-> "None" ]

OnFrame(f, s) == [ kind |-> "OnFrame", frame |-> f, next_state |-> s ]
IASA(f, g) == [ kind |-> "Some", frame |-> f, state_getter |-> g ]

\* FighterStateTransition::default_for_state; a state_getter is named by a
\* string.  Attack has no arm of its own: it falls to `_ => Self::default()`
default_for_state(s) ==
    CASE s = "Idle" -> [ end |-> NoEnd, iasa |-> IASA(0, "idle") ]
      [] s = "Walk" -> [ end |-> NoEnd, iasa |-> IASA(0, "walk") ]
      [] s = "Turnaround" ->
            [ end |-> OnFrame(TURNAROUND_DURATION_FRAMES, "Idle"),
              iasa |-> IASA(0, "turnaround") ]
      [] s = "Run" -> [ end |-> NoEnd, iasa |-> IASA(0, "run") ]
      [] s = "RunEnd" ->
            [ end |-> OnFrame(RUN_END_DURATION, "RunTurnaround"),
              iasa |-> IASA(0, "run") ]
      [] s = "RunTurnaround" ->
            [ end |-> OnFrame(RUN_TURNAROUND_DURATION_FRAMES, "Run"),
              iasa |-> IASA(0, "run") ]
      [] s = "EnterCrouch" ->
            [ end |-> OnFrame(CROUCH_TRANSITION_THRESHOLD_FRAME, "Crouch"),
              iasa |-> NoIASA ]
      [] s = "Crouch" -> [ end |-> NoEnd, iasa |-> IASA(0, "crouch") ]
      [] s = "ExitCrouch" ->
            [ end |-> OnFrame(CROUCH_TRANSITION_THRESHOLD_FRAME, "Idle"),
              iasa |-> NoIASA ]
      [] s = "LandCrouch" ->
            [ end |-> OnFrame(DEFAULT_LAND_CROUCH_DURATION, "Idle"),
              iasa |-> IASA(DEFAULT_LAND_CROUCH_DURATION, "idle") ]
      [] s = "JumpSquat" -> [ end |-> NoEnd, iasa |-> IASA(0, "airdodge") ]
      [] s = "IdleAirborne" -> [ end |-> NoEnd, iasa |-> IASA(0, "airdodge") ]
      [] s = "Airdodge" ->
            [ end |-> OnFrame(AIRDODGE_DURATION_FRAMES, "IdleAirborne"),
              iasa |-> NoIASA ]
      [] s = "Dash" ->
            [ end |-> OnFrame(DEFAULT_DASH_DURATION, "Run"),
              iasa |-> IASA(0, "dash") ]
      [] s = "Moonwalk" ->
            [ end |-> OnFrame(DEFAULT_DASH_DURATION, "Idle"),
              iasa |-> IASA(0, "moonwalk") ]
      [] OTHER -> [ end |-> NoEnd, iasa |-> NoIASA ]

\* megaman.rs update_state_transition_rules: the rule it installs for state s
megaman_rule_for_state(s) ==
    IF s = "Attack"
    THEN [ end |-> OnFrame(ATTACK_DURATION, "Idle"),
           iasa |-> IASA(ATTACK_IASA, "attack") ]
    ELSE default_for_state(s)

\* the wirings in which apply_state_transition moves the actor: "rule" for
\* a MegaMan, "default" for a character whose rules all come from
\* default_for_state
RuleWirings == { "rule", "default" }

\* the FighterStateTransition of an actor whose rule was installed for
\* state s
rule_in_force(s) ==
    IF wiring = "default" THEN default_for_state(s)
    ELSE megaman_rule_for_state(s)

\* (iasa.state_getter)(&data)
state_getter(g, d) ==
    CASE g = "idle" -> default_idle_interrupt(d)
      [] g = "walk" -> OrElse(default_idle_interrupt(d), try_end_walk(d))
      [] g = "turnaround" -> OrElse(try_dash(d), try_jump(d))
      [] g = "run" -> default_run_interrupt(d)
      [] g = "crouch" -> OrElse(try_jump(d), try_end_crouch(d))
      [] g = "airdodge" -> try_airdodge(d)
      [] g = "dash" -> OrElse(try_jump(d), OrElse(try_moonwalk(d), try_dash(d)))
      [] g = "moonwalk" -> OrElse(try_jump(d), try_moonwalk(d))
      [] g = "attack" -> megaman_attack_interrupt(d)
      [] OTHER -> NoState

\* a natural end tested one frame late
NaturalEndOf_Late(rule, f) ==
    IF rule.end.kind = "OnFrame" /\ rule.end.frame < f
    THEN rule.end.next_state
    ELSE NoState

\* the natural-end half of apply_state_transition
NaturalEndOf(rule, f) ==
    IF rule.end.kind = "OnFrame" /\ rule.end.frame <= f
    THEN rule.end.next_state
    ELSE NoState

\* an interrupt that gives way to a natural end available on the same tick
InterruptOf_AfterEnd(rule, f, d) ==
    IF NaturalEndOf(rule, f) # NoState THEN NoState
    ELSE IF rule.iasa.kind = "Some" /\ rule.iasa.frame <= f
    THEN state_getter(rule.iasa.state_getter, d)
    ELSE NoState

\* the IASA half of apply_state_transition: the state the interrupt yields,
\* once frame-in-state has reached the threshold
InterruptOf(rule, f, d) ==
    IF rule.iasa.kind = "Some" /\ rule.iasa.frame <= f
    THEN state_getter(rule.iasa.state_getter, d)
    ELSE NoState

\* control.clear_buffers(): every interrupt clears the action buffer
ClearedAction_All(new_state, a) == NoInput

\* the buffers after an interrupt to new_state (the match on new_state)
ClearedAction(new_state, a) ==
    IF new_state \in { "Dash", "Moonwalk" } THEN a ELSE NoInput

\* a directional buffer that only an Airdodge clears
ClearedDirectional_AirdodgeOnly(new_state, da) ==
    IF new_state = "Airdodge" THEN NoInput ELSE da

ClearedDirectional(new_state, da) ==
    IF new_state \in { "Dash", "Moonwalk", "Airdodge" } THEN NoInput ELSE da

-----------------------------------------------------------------------------
(* input.rs: the input buffer.                                             *)

Buffered(v, st) == [ kind |-> "Some", value |-> v, stick |-> st, age |-> 0 ]

\* age_buffer keeping an entry whose age has reached BUFFER_SIZE
age_buffer_Late(b) ==
    IF b.kind = "None" THEN b
    ELSE IF b.age + 1 > BUFFER_SIZE THEN NoInput
         ELSE [ b EXCEPT !.age = b.age + 1 ]

\* BufferedInput::age_buffer
age_buffer(b) ==
    IF b.kind = "None" THEN b
    ELSE IF b.age + 1 >= BUFFER_SIZE THEN NoInput
         ELSE [ b EXCEPT !.age = b.age + 1 ]

\* the last n elements of a sequence (Itertools::tail)
Tail_n(q, n) == IF Len(q) <= n THEN q ELSE SubSeq(q, Len(q) - n + 1, Len(q))

\* the test of detect_smash_input taken over the whole history
is_smash_input_WholeHistory(st, history) ==
    /\ LengthSq(st) >= SMASH_THRESHOLD_SQ
    /\ \E i \in 1..Len(history) : DistanceSq(history[i], st) >= SMASH_DISTANCE_SQ

\* the test of detect_smash_input
is_smash_input(st, history) ==
    /\ LengthSq(st) >= SMASH_THRESHOLD_SQ
    /\ \E i \in 1..Len(Tail_n(history, SMASH_INPUT_MAX_DURATION)) :
          DistanceSq(Tail_n(history, SMASH_INPUT_MAX_DURATION)[i], st) >= SMASH_DISTANCE_SQ

-----------------------------------------------------------------------------
(* fighter.rs: the state machine written as systems that send              *)
(* FighterStateUpdate events.                                              *)

\* impl Default for FighterProperties (the frame numbers)
FighterProperties ==
    [ dash_duration |-> 10, land_crouch_duration |-> 6,
      jumpsquat_duration |-> 5, turnaround_duration |-> 7,
      run_turnaround_duration |-> 8, airdodge_duration |-> 15,
      \* speeds and accelerations, in hundredths
      walk_speed |-> 300, dash_speed |-> 500, jump_speed |-> 1000,
      ground_friction |-> 30, gravity |-> -30 ]

\* the frame on which a system of fighter.rs acts on state s by its frame
\* count alone (0 when none does)
TimedFrame(s) ==
    CASE s = "LandCrouch" -> FighterProperties.land_crouch_duration
      [] s = "Dash" -> FighterProperties.dash_duration
      [] s = "Turnaround" -> FighterProperties.turnaround_duration
      [] s = "RunTurnaround" -> FighterProperties.run_turnaround_duration
      [] s = "Airdodge" -> FighterProperties.airdodge_duration
      [] s = "JumpSquat" -> FighterProperties.jumpsquat_duration
      [] s = "RunEnd" -> 1
      [] s \in { "EnterCrouch", "ExitCrouch" } -> CROUCH_TRANSITION_THRESHOLD_FRAME
      [] OTHER -> 0

Max(a, b) == IF a >= b THEN a ELSE b

\* get_sideways_direction of a stick position
get_sideways_direction(v) == IF v[1] > 0 THEN "Right" ELSE "Left"

\* the systems of FighterEventSet::Act whose loop body reaches the actor in
\* state s: every transition_from_* system skips (`continue`) an actor that
\* is not in its state
ActGroup(s) ==
    { "compute_common_side_effects" } \cup
    ( CASE s = "LandCrouch" -> { "transition_from_land_crouch" }
        [] s = "Dash" -> { "transition_from_dash" }
        [] s = "Turnaround" -> { "transition_from_turnaround" }
        [] s = "RunTurnaround" -> { "transition_from_run_turnaround" }
        [] s = "Airdodge" -> { "transition_from_airdodge" }
        [] s = "JumpSquat" -> { "transition_from_jumpsquat" }
        [] OTHER -> {} )

\* compute_common_side_effects, "Implementation-specific stuff": the updates
\* sent, the facing and the DirectionalAction left, and whether the system
\* returned
SpecificSideEffects(s, fac, st, da) ==
    LET smash == /\ da.kind = "Some"
                 /\ da.value.type = "Smash"
                 /\ horizontal(da.value.dir) # "None"
        none == [ updates |-> << >>, facing |-> fac, da |-> da,
                  returned |-> FALSE ]
        send(x) == [ none EXCEPT !.updates = << x >> ]
    IN  IF s \in { "Idle", "LandCrouch" } /\ st[2] < -CROUCH_THRESHOLD
        THEN send("EnterCrouch")
        ELSE IF s = "Crouch" /\ st[2] >= -CROUCH_THRESHOLD
        THEN send("ExitCrouch")
        ELSE IF s \in { "Idle", "Turnaround", "Walk", "Dash" } /\ smash
        THEN IF horizontal(da.value.dir) = fac /\ s = "Dash"
             THEN [ none EXCEPT !.returned = TRUE ]
             ELSE [ updates |-> << "Dash" >>,
                    facing |-> horizontal(da.value.dir),
                    da |-> NoInput, returned |-> FALSE ]
        ELSE IF s = "Idle" /\ Abs(st[1]) > 10
        THEN IF get_sideways_direction(st) = fac
             THEN send("Walk") ELSE send("Turnaround")
        ELSE IF s = "Walk"
        THEN IF st[1] = 0 THEN send("Idle")
             ELSE IF get_sideways_direction(st) # fac THEN send("Turnaround")
             ELSE none
        ELSE IF s = "Run"
        THEN IF st[1] = 0 THEN send("RunEnd")
             ELSE IF get_cardinal_direction(st) = "Down" THEN send("Crouch")
             ELSE IF get_sideways_direction(st) # fac THEN send("RunTurnaround")
             ELSE none
        ELSE none

\* compute_common_side_effects, "Global stuff": the updates sent
GlobalSideEffects(s, f, fac, st) ==
    IF s = "RunEnd" /\ f = 1
    THEN IF st[1] # 0 /\ get_sideways_direction(st) # fac
         THEN << "RunTurnaround" >> ELSE << "Idle" >>
    ELSE IF s = "EnterCrouch" /\ f = CROUCH_TRANSITION_THRESHOLD_FRAME
    THEN << "Crouch" >>
    ELSE IF s = "ExitCrouch" /\ f = CROUCH_TRANSITION_THRESHOLD_FRAME
    THEN << "Idle" >>
    ELSE << >>

\* compute_common_side_effects on the queue, facing and directional input x
common_side_effects(s, f, st, x) ==
    LET specific == SpecificSideEffects(s, x.facing, st, x.da)
        global == IF specific.returned THEN << >>
                  ELSE GlobalSideEffects(s, f, specific.facing, st)
    IN  [ updates |-> x.updates \o specific.updates \o global,
          facing |-> specific.facing,
          da |-> specific.da ]

\* the transition_from_* system of state s on x; without Shield held,
\* transition_from_jumpsquat sends a jump velocity and no state update
timed_effects(s, f, held, x) ==
    LET send(n, new_state) ==
            IF f = n THEN [ x EXCEPT !.updates = Append(@, new_state) ] ELSE x
        send_or_flip(n, new_state) ==
            IF f = n THEN [ x EXCEPT !.updates = Append(@, new_state) ]
            ELSE IF f = n \div 2 THEN [ x EXCEPT !.facing = Flip(@) ]
            ELSE x
    IN  CASE s = "LandCrouch" ->
                send(FighterProperties.land_crouch_duration, "Idle")
          [] s = "Dash" -> send(FighterProperties.dash_duration, "Run")
          [] s = "Turnaround" ->
                send_or_flip(FighterProperties.turnaround_duration, "Idle")
          [] s = "RunTurnaround" ->
                send_or_flip(FighterProperties.run_turnaround_duration, "Run")
          [] s = "Airdodge" ->
                send(FighterProperties.airdodge_duration, "IdleAirborne")
          [] s = "JumpSquat" ->
                IF "Shield" \in held
                THEN send(FighterProperties.jumpsquat_duration, "LandCrouch")
                ELSE x
          [] OTHER -> x

-----------------------------------------------------------------------------
(* Specification Spec: one tick of the interrupt-window machine.           *)
(*                                                                         *)
(*   update_frame_count                                                    *)
(*   InputSet:   age_buffers, update_control_state_from_gamepad, then the  *)
(*               unordered group { buffer_actions_from_gamepad,            *)
(*               detect_smash_input, detect_half_circle_input }            *)
(*   Act:        apply_state_transition, shoot_lemon                       *)
(*   PhysicsSet: apply_velocity (the sweep is the environment's choice)    *)
(*   React:      land, go_airborne, update_fighter_state,                  *)
(*               update_state_transition_rules, remove/add_intangible      *)

\* the samples of the stick history that are kept: those that
\* detect_smash_input reads or, where the half circle is scanned, the
\* whole history
HistoryKept ==
    IF wiring = "input" THEN STICK_HISTORY_SIZE ELSE SMASH_INPUT_MAX_DURATION

Observed(applied, reset) ==
    [ last EXCEPT !.applied = applied, !.reset = reset ]

Data ==
    [ state |-> state, facing |-> facing, stick |-> stick, action |-> action,
      directional_action |-> directional_action, lemon_count |-> lemon_count ]

\* the unordered group that closes InputSet.  fighter.rs reads neither
\* Control.action nor a half circle: under its wiring the group is followed
\* through detect_smash_input alone
InputGroup ==
    IF wiring \in RuleWirings
    THEN { "buffer_actions_from_gamepad", "detect_smash_input",
           "detect_half_circle_input" }
    ELSE IF wiring = "input"
    THEN { "detect_smash_input", "detect_half_circle_input" }
    ELSE { "detect_smash_input" }

\* the actions of the default mapping that an analog button gives
\* (LeftTrigger2, RightTrigger2)
AnalogActions == { "Shield" }

\* the buttons the environment presses: fighter.rs reads Shield alone, the
\* gesture detection none
Buttons ==
    IF wiring \in RuleWirings THEN Actions
    ELSE IF wiring = "input" THEN {}
    ELSE { "Shield" }

Init ==
    /\ wiring = "rule"
    /\ pc = "update_frame_count"
    /\ state = "Idle"
    /\ airdodge_dir = ZERO
    /\ frame = 0
    /\ facing \in { "Left", "Right" }
    /\ props = "Idle"
    /\ stick = ZERO
    /\ action = NoInput
    /\ directional_action = NoInput
    /\ held_actions = {}
    /\ previous_held_actions = {}
    /\ previous_stick_positions = << >>
    /\ pressed = {}
    /\ pending = {}
    /\ airborne = FALSE
    /\ collision \in { "floor", "none" }
    /\ ev_state = << >>
    /\ intangible = FALSE
    /\ lemon_count = 0
    /\ budget = MaxEvents
    /\ last = [ applied |-> "none", reset |-> FALSE, interrupt |-> NoState,
                new_input |-> FALSE, from |-> "Idle", frame_was |-> 0 ]
    /\ ApartAtRest

\* main.rs update_frame_count
update_frame_count ==
    /\ pc = "update_frame_count"
    /\ UNCHANGED wiring
    /\ IF wiring \in RuleWirings
       THEN rule_in_force(props).end.kind = "None"
               => frame < (IF state = "Attack" THEN ATTACK_DURATION + 1
                           ELSE MaxFrame)
       ELSE frame < Max(MaxFrame, TimedFrame(state))
    /\ frame' = frame + 1
    /\ pc' = "age_buffers"
    /\ last' = Observed("none", FALSE)
    /\ UNCHANGED << state, airdodge_dir, facing, props, stick, action,
                    directional_action, held_actions, previous_held_actions,
                    previous_stick_positions, pressed, pending, airborne,
                    collision, ev_state, intangible, lemon_count, budget >>
    /\ UNCHANGED apart

\* input.rs age_buffers
age_buffers ==
    /\ pc = "age_buffers"
    /\ UNCHANGED wiring
    /\ action' = age_buffer(action)
    /\ directional_action' = age_buffer(directional_action)
    /\ pc' = "update_control_state_from_gamepad"
    /\ last' = Observed("none", FALSE)
    /\ UNCHANGED << state, airdodge_dir, frame, facing, props, stick,
                    held_actions, previous_held_actions,
                    previous_stick_positions, pressed, pending, airborne,
                    collision, ev_state, intangible, lemon_count, budget >>
    /\ UNCHANGED apart

\* input.rs update_control_state_from_gamepad: the sample of this tick
\* moves the stick, or presses or releases one button, or moves an analog
\* trigger without crossing the press threshold, or changes nothing.
\* pressed is the set of actions of the Button events of this tick whose
\* value is not zero
update_control_state_from_gamepad ==
    /\ pc = "update_control_state_from_gamepad"
    /\ UNCHANGED wiring
    /\ \E new_stick \in Sticks, button \in Buttons \cup { "none" },
          analog \in BOOLEAN :
          LET changed == new_stick # stick \/ button # "none"
              both == new_stick # stick /\ button # "none"
              just_pressed == IF ~ analog /\ button # "none"
                                 /\ button \notin held_actions
                              THEN { button } ELSE {}
              just_released == IF ~ analog /\ button \in held_actions
                               THEN { button } ELSE {}
          IN  /\ changed => budget > 0
              /\ ~both
              /\ wiring = "input" =>
                    Len(previous_stick_positions) < MaxSamples
              /\ analog => button \in AnalogActions /\ wiring \in RuleWirings
              /\ budget' = IF changed THEN budget - 1 ELSE budget
              /\ previous_held_actions' = held_actions
              /\ previous_stick_positions' =
                     Tail_n(Append(previous_stick_positions, stick), HistoryKept)
              /\ stick' = new_stick
              /\ held_actions' = (held_actions \cup just_pressed) \ just_released
              /\ pressed' = IF analog THEN { button } ELSE just_pressed
              /\ last' = [ Observed("none", FALSE) EXCEPT !.new_input = changed ]
    /\ pending' = InputGroup
    /\ pc' = "input_group"
    /\ UNCHANGED << state, airdodge_dir, frame, facing, props, action,
                    directional_action, airborne, collision, ev_state,
                    intangible, lemon_count >>
    /\ UNCHANGED apart

\* leaving the unordered group once each of its systems has run
GroupDone(me) ==
    IF pending # { me }
    THEN pending' = pending \ { me } /\ pc' = pc
    ELSE IF wiring \in RuleWirings
    THEN pending' = {} /\ pc' = "apply_state_transition"
    ELSE IF wiring = "input"
    THEN pending' = {} /\ pc' = "age_buffers"
    ELSE pending' = ActGroup(state) /\ pc' = "act_group"

\* input.rs buffer_actions_from_gamepad
buffer_actions_from_gamepad ==
    /\ pc = "input_group"
    /\ UNCHANGED wiring
    /\ "buffer_actions_from_gamepad" \in pending
    /\ action' =
          IF \E a \in pressed : a \notin previous_held_actions
          THEN Buffered(CHOOSE a \in pressed : a \notin previous_held_actions, stick)
          ELSE action
    /\ GroupDone("buffer_actions_from_gamepad")
    /\ last' = Observed("none", FALSE)
    /\ UNCHANGED << state, airdodge_dir, frame, facing, props, stick,
                    directional_action, held_actions, previous_held_actions,
                    previous_stick_positions, pressed, airborne, collision,
                    ev_state, intangible, lemon_count, budget >>
    /\ UNCHANGED apart

\* input.rs detect_smash_input
detect_smash_input ==
    /\ pc = "input_group"
    /\ UNCHANGED wiring
    /\ "detect_smash_input" \in pending
    /\ directional_action' =
          IF is_smash_input(stick, previous_stick_positions)
          THEN Buffered([ type |-> "Smash", dir |-> get_cardinal_direction(stick) ],
                        stick)
          ELSE directional_action
    /\ GroupDone("detect_smash_input")
    /\ last' = Observed("none", FALSE)
    /\ UNCHANGED << state, airdodge_dir, frame, facing, props, stick, action,
                    held_actions, previous_held_actions,
                    previous_stick_positions, pressed, airborne, collision,
                    ev_state, intangible, lemon_count, budget >>
    /\ UNCHANGED apart

\* whether the float product a * b is the negative zero (the zeros of a
\* clamped stick are positive)
NegativeZero(a, b) == a * b = 0 /\ ( (a < 0) # (b < 0) )

\* f32::signum of Vec2::perp_dot(p, q) = p.x * q.y - p.y * q.x: the sign
\* bit decides for a zero
perp_dot_signum(p, q) ==
    LET a == p[1] * q[2]
        b == p[2] * q[1]
    IN  IF a > b THEN 1
        ELSE IF a < b THEN -1
        ELSE IF a = 0 /\ NegativeZero(p[1], q[2]) /\ ~ NegativeZero(p[2], q[1])
        THEN -1
        ELSE 1

\* Vec2::angle_between(p, q) == 0.0: the two vectors point the same way
angle_is_zero(p, q) ==
    /\ p[1] * q[2] = p[2] * q[1]
    /\ p[1] * q[1] + p[2] * q[2] > 0

Reversed(q) == [ i \in 1..Len(q) |-> q[Len(q) + 1 - i] ]

\* take_while(|p| p.length() >= HALF_CIRCLE_INPUT_THRESHOLD_DISTANCE)
take_while_in_ring(q) ==
    LET out == { i \in 1..Len(q) : LengthSq(q[i]) < HALF_CIRCLE_THRESHOLD_SQ }
    IN  IF out = {} THEN q
        ELSE SubSeq(q, 1, (CHOOSE i \in out : \A j \in out : i <= j) - 1)

\* detect_half_circle_input, positions: the current stick, then the newest
\* samples of the history, newest first
half_circle_positions(st, history) ==
    << st >> \o take_while_in_ring(
                   Reversed(Tail_n(history, HALF_CIRCLE_MAX_DURATION)))

\* detect_half_circle_input, the loop over the angles after the first:
\* angle i lies between positions i and i + 1
RECURSIVE half_circle_scan(_, _, _, _)
half_circle_scan(positions, sign, opposite_direction, i) ==
    IF i > Len(positions) - 1 THEN FALSE
    ELSE IF perp_dot_signum(positions[i], positions[i + 1]) # sign THEN FALSE
    ELSE IF get_cardinal_direction(positions[i + 1]) = opposite_direction
    THEN TRUE
    ELSE half_circle_scan(positions, sign, opposite_direction, i + 1)

\* detect_half_circle_input: the rotation of the half circle it finds, or
\* "None"
half_circle(st, history) ==
    LET positions == half_circle_positions(st, history)
    IN  IF LengthSq(st) < HALF_CIRCLE_THRESHOLD_SQ
           \/ get_cardinal_direction(st) = "None"
        THEN "None"
        ELSE IF Len(positions) < 2 \/ angle_is_zero(positions[1], positions[2])
        THEN "None"
        ELSE IF half_circle_scan(positions,
                                 perp_dot_signum(positions[1], positions[2]),
                                 FlipCardinal(get_cardinal_direction(st)), 2)
        THEN ( IF perp_dot_signum(positions[1], positions[2]) = 1
               THEN "Clockwise" ELSE "CounterClockwise" )
        ELSE "None"

\* input.rs detect_half_circle_input.  Where the whole history is kept the
\* scan is that of the code.  Under the wirings that keep the samples of
\* detect_smash_input only, the guards on the current stick are those of
\* the code; whether the scan of the history window finds a completed half
\* circle, and with which rotation, is left to the environment.
detect_half_circle_input ==
    /\ pc = "input_group"
    /\ UNCHANGED wiring
    /\ "detect_half_circle_input" \in pending
    /\ \/ /\ wiring # "input"
          /\ UNCHANGED << directional_action, previous_stick_positions, budget >>
          /\ last' = Observed("none", FALSE)
       \/ /\ wiring # "input"
          /\ LengthSq(stick) >= HALF_CIRCLE_THRESHOLD_SQ
          /\ get_cardinal_direction(stick) # "None"
          /\ previous_stick_positions # << >>
          /\ budget > 0
          /\ budget' = budget - 1
          /\ \E rot \in { "Clockwise", "CounterClockwise" } :
                directional_action' =
                    Buffered([ type |-> "HalfCircle",
                               dir |-> get_cardinal_direction(stick),
                               rot |-> rot ], stick)
          /\ previous_stick_positions' = << >>
          /\ last' = [ Observed("none", FALSE) EXCEPT !.new_input = TRUE ]
       \/ /\ wiring = "input"
          /\ LET rot == half_circle(stick, previous_stick_positions)
             IN  IF rot = "None"
                 THEN UNCHANGED << directional_action,
                                   previous_stick_positions >>
                 ELSE /\ directional_action' =
                            Buffered([ type |-> "HalfCircle",
                                       dir |-> get_cardinal_direction(stick),
                                       rot |-> rot ], stick)
                      /\ previous_stick_positions' = << >>
          /\ last' = Observed("none", FALSE)
          /\ UNCHANGED budget
    /\ GroupDone("detect_half_circle_input")
    /\ UNCHANGED << state, airdodge_dir, frame, facing, props, stick, action,
                    held_actions, previous_held_actions, pressed, airborne,
                    collision, ev_state, intangible, lemon_count >>
    /\ UNCHANGED apart

\* fighter.rs compute_common_side_effects, `facing.0 = direction`: an actor
\* that enters Dash on a Smash gesture faces the direction of the gesture
DashFacing(new_state, da, f) ==
    IF new_state = "Dash" /\ da.kind = "Some" /\ da.value.type = "Smash"
    THEN horizontal(da.value.dir)
    ELSE f

\* a frame counter that only an interrupt resets
FrameAfterTransition_InterruptOnly(interrupt, natural_end, f) ==
    IF interrupt # NoState THEN 0 ELSE f

\* apply_state_transition, `state_frame.0 = 0` in both branches
FrameAfterTransition(interrupt, natural_end, f) ==
    IF interrupt # NoState \/ natural_end # NoState THEN 0 ELSE f

\* fighter_state.rs apply_state_transition
apply_state_transition ==
    /\ pc = "apply_state_transition"
    /\ UNCHANGED wiring
    /\ LET rule == rule_in_force(props)
           interrupt == InterruptOf(rule, frame, Data)
           natural_end == NaturalEndOf(rule, frame)
       IN  /\ frame' = FrameAfterTransition(interrupt, natural_end, frame)
           /\ IF interrupt # NoState
              THEN /\ state' = interrupt
                   /\ airdodge_dir' = IF interrupt = "Airdodge"
                                      THEN AirdodgeDirection(Data) ELSE ZERO
                   /\ action' = ClearedAction(interrupt, action)
                   /\ directional_action' =
                          ClearedDirectional(interrupt, directional_action)
                   /\ facing' = DashFacing(interrupt, directional_action, facing)
                   /\ last' = [ Observed("interrupt", TRUE) EXCEPT
                                  !.interrupt = interrupt, !.from = state,
                                  !.frame_was = frame ]
              ELSE IF natural_end # NoState
              THEN /\ state' = natural_end
                   /\ airdodge_dir' = ZERO
                   /\ last' = [ Observed("end", TRUE) EXCEPT
                                  !.interrupt = NoState, !.from = state,
                                  !.frame_was = frame ]
                   /\ UNCHANGED << action, directional_action, facing >>
              ELSE /\ last' = [ Observed("none", FALSE) EXCEPT
                                  !.interrupt = NoState ]
                   /\ UNCHANGED << state, airdodge_dir, action,
                                   directional_action, facing >>
    /\ pc' = "turnaround_facing"
    /\ UNCHANGED << props, stick, held_actions, previous_held_actions,
                    previous_stick_positions, pressed, pending, airborne,
                    collision, ev_state, intangible, lemon_count, budget >>
    /\ UNCHANGED apart

\* fighter.rs transition_from_turnaround / transition_from_run_turnaround,
\* the branch that flips facing at the midpoint of the state
MidpointFlip(s, f, fac) ==
    IF \/ s = "Turnaround" /\ f = TURNAROUND_DURATION_FRAMES \div 2
       \/ s = "RunTurnaround" /\ f = RUN_TURNAROUND_DURATION_FRAMES \div 2
    THEN Flip(fac)
    ELSE fac

turnaround_facing ==
    /\ pc = "turnaround_facing"
    /\ UNCHANGED wiring
    /\ facing' = MidpointFlip(state, frame, facing)
    /\ pc' = "shoot_lemon"
    /\ last' = Observed("none", FALSE)
    /\ UNCHANGED << state, airdodge_dir, frame, props, stick, action,
                    directional_action, held_actions, previous_held_actions,
                    previous_stick_positions, pressed, pending, airborne,
                    collision, ev_state, intangible, lemon_count, budget >>
    /\ UNCHANGED apart

\* the components of the actor that neither shoot_lemon nor the despawn of
\* a lemon touches
lemons_untouched ==
    << velocity, ev_accelerate, friction, target_velocity, position, collider,
       overlaps, ev_hitbox, ev_set_velocity, ev_add_velocity, hitboxes, pass,
       gravity, pulled >>

\* a shoot_lemon that does not look at the counter
shoots_Uncapped(s, f, count) ==
    s = "Attack" /\ f = ATTACK_SHOOT_FRAME

\* shoot_lemon: whether the loop body reaches the spawn, for an actor in
\* state s at frame f whose LemonCount is count (0 also when it has none)
shoots(s, f, count) ==
    /\ s = "Attack" /\ f = ATTACK_SHOOT_FRAME
    /\ count < MAX_LEMONS_AT_A_TIME

\* the on_remove hook of Lemon, run once when the entity is removed, however
\* many systems asked for its despawn on the tick
on_remove(count, commands) ==
    IF count > 0 THEN count - 1 ELSE count

\* megaman.rs shoot_lemon.  Where the lemons of the actor are followed
\* (world, under the interrupt-window machine) the lemon is spawned
shoot_lemon ==
    /\ pc = "shoot_lemon"
    /\ UNCHANGED wiring
    /\ lemon_count' = IF shoots(state, frame, lemon_count)
                      THEN lemon_count + 1
                      ELSE lemon_count
    /\ world' = IF shoots(state, frame, lemon_count)
                THEN Append(world, [ owner |-> "actor" ])
                ELSE world
    /\ pc' = "accelerate_from_gravity"
    /\ last' = Observed("none", FALSE)
    /\ UNCHANGED << state, airdodge_dir, frame, facing, props, stick, action,
                    directional_action, held_actions, previous_held_actions,
                    previous_stick_positions, pressed, pending, airborne,
                    collision, ev_state, intangible, budget >>
    /\ UNCHANGED lemons_untouched

\* physics.rs accelerate_from_gravity: the query is of the entities that
\* carry Velocity and Gravity, and the velocity of each of them is changed
accelerate_from_gravity ==
    /\ pc = "accelerate_from_gravity"
    /\ UNCHANGED wiring
    /\ pulled' = gravity
    /\ velocity' = IF wiring = "physics" /\ gravity
                   THEN << velocity[1],
                           velocity[2] + FighterProperties.gravity >>
                   ELSE velocity
    /\ pc' = "apply_velocity"
    /\ last' = Observed("none", FALSE)
    /\ UNCHANGED << state, airdodge_dir, frame, facing, props, stick, action,
                    directional_action, held_actions, previous_held_actions,
                    previous_stick_positions, pressed, pending, airborne,
                    collision, ev_state, intangible, lemon_count, budget >>
    /\ UNCHANGED << ev_accelerate, friction, target_velocity, position,
                    collider, entities, gravity >>

Dot(v, w) == v[1] * w[1] + v[2] * w[2]

\* Collider::get_pushback, << >> for Option::None and << v >> for Some(v).
\* With t the quotient
\* numerator / denominator, the result (t - 1) * displacement.dot(normal) *
\* normal is (numerator - denominator) * normal
get_pushback(c, p, displacement) ==
    LET denominator == Dot(c.normal, displacement)
        numerator == Dot(c.normal, << c.centre[1] - p[1], c.centre[2] - p[2] >>)
        \* denominator * (b_0 - c)
        offset == << denominator * (p[1] - c.centre[1]) + numerator * displacement[1],
                     denominator * (p[2] - c.centre[2]) + numerator * displacement[2] >>
    IN  IF denominator >= 0 THEN << >>
        ELSE IF numerator > 0 \/ numerator < denominator THEN << >>
        ELSE IF 4 * LengthSq(offset) > denominator * denominator * c.breadth * c.breadth
        THEN << >>
        ELSE << << (numerator - denominator) * c.normal[1],
                   (numerator - denominator) * c.normal[2] >> >>

\* displace_and_return_pushback, the pushback: that of the collider, or the
\* zero vector
displace_pushback(c, p, displacement) ==
    IF get_pushback(c, p, displacement) = << >> THEN ZERO
    ELSE get_pushback(c, p, displacement)[1]

\* displace_and_return_pushback taking the last pushback of the iteration
displace_and_return_pushback_Last(colliders, p, displacement) ==
    LET pushbacks == [ i \in DOMAIN colliders |->
                         get_pushback(colliders[i], p, displacement) ]
        given == SelectSeq(pushbacks, LAMBDA x : x # << >>)
    IN  IF given = << >> THEN ZERO ELSE given[Len(given)][1]

\* displace_and_return_pushback, the pushback: the colliders are iterated,
\* those that give no pushback are filtered out (filter_map) and the first
\* pushback left is taken (next), the zero vector if there is none
displace_and_return_pushback(colliders, p, displacement) ==
    LET pushbacks == [ i \in DOMAIN colliders |->
                         get_pushback(colliders[i], p, displacement) ]
        given == SelectSeq(pushbacks, LAMBDA x : x # << >>)
    IN  IF given = << >> THEN ZERO ELSE given[1][1]

\* Vec2::normalize, for a multiple of a vector of length 1 along an axis
normalize_axis(v) ==
    << IF v[1] > 0 THEN 1 ELSE IF v[1] < 0 THEN -1 ELSE 0,
       IF v[2] > 0 THEN 1 ELSE IF v[2] < 0 THEN -1 ELSE 0 >>

\* apply_velocity, the velocity after a pushback: v.0 += modified_pushback
velocity_after_pushback(v, pushback) ==
    LET normal == normalize_axis(pushback)
    IN  << v[1] + normal[1] * Dot(normal, pushback),
           v[2] + normal[2] * Dot(normal, pushback) >>

\* the kind of collider a Collision event with this normal came from
collider_of(normal) ==
    IF normal = << 0, 1 >> THEN "floor"
    ELSE IF normal = << 0, -1 >> THEN "ceiling"
    ELSE "wall"

\* physics.rs apply_velocity.  Where the position of the actor and the
\* collider are followed ("sweep"), the sweep is computed and collision is
\* the sequence of the normals of the Collision events sent.  Elsewhere it is
\* the environment's choice: a pushback with a floor normal, a pushback
\* with another normal, or no pushback; a projectile of the actor may
\* despawn, which runs the on_remove hook of Lemon.
apply_velocity ==
    /\ pc = "apply_velocity"
    /\ UNCHANGED wiring
    /\ \/ /\ wiring \notin { "sweep", "stage", "physics" }
          /\ \E pushback \in { "floor", "wall", "none" }, despawn \in 0..2 :
                \* despawn: the systems that ask for the despawn of the
                \* oldest lemon on this tick (decrement_lifetime,
                \* despawn_collided_projectiles)
                LET changed == pushback # collision \/ despawn > 0
                IN  /\ changed => budget > 0
                    /\ despawn > 0 => world # << >>
                    /\ budget' = IF changed THEN budget - 1 ELSE budget
                    /\ collision' = pushback
                    /\ airborne' = (pushback = "none")
                    /\ world' = IF despawn > 0 THEN Tail(world) ELSE world
                    /\ lemon_count' = IF despawn > 0
                                      THEN on_remove(lemon_count, despawn)
                                      ELSE lemon_count
          /\ pc' = "land"
          /\ UNCHANGED << frame, lemons_untouched >>
       \/ /\ wiring \in { "sweep", "stage" }
          /\ frame < MaxFrame
          /\ frame' = frame + 1
          /\ LET pushback ==
                     IF wiring = "stage"
                     THEN displace_and_return_pushback(world, position,
                                                       velocity)
                     ELSE displace_pushback(collider, position, velocity)
             IN  /\ position' = << position[1] + velocity[1] + pushback[1],
                                   position[2] + velocity[2] + pushback[2] >>
                 /\ IF LengthSq(pushback) = 0
                    THEN /\ airborne' = TRUE
                         /\ collision' = << >>
                         /\ UNCHANGED velocity
                    ELSE /\ velocity' = velocity_after_pushback(velocity, pushback)
                         /\ collision' = << normalize_axis(pushback) >>
                         /\ airborne' = FALSE
          /\ pc' = pc
          /\ UNCHANGED << budget, lemon_count, ev_accelerate, friction,
                          target_velocity, collider, entities, gravity,
                          pulled >>
       \/ /\ wiring = "physics"
          /\ LET pushback == displace_pushback(collider, position, velocity)
             IN  /\ position' = << position[1] + velocity[1] + pushback[1],
                                   position[2] + velocity[2] + pushback[2] >>
                 /\ IF LengthSq(pushback) = 0
                    THEN /\ airborne' = TRUE
                         /\ collision' = "none"
                         /\ UNCHANGED velocity
                    ELSE /\ velocity' = velocity_after_pushback(velocity, pushback)
                         /\ collision' = collider_of(normalize_axis(pushback))
                         /\ airborne' = FALSE
          /\ pc' = "land"
          /\ UNCHANGED << frame, budget, lemon_count, ev_accelerate, friction,
                          target_velocity, collider, entities, gravity,
                          pulled >>
    /\ last' = IF wiring = "stage"
               THEN [ Observed("none", FALSE) EXCEPT !.position = position,
                                                     !.velocity = velocity ]
               ELSE Observed("none", FALSE)
    /\ UNCHANGED << state, airdodge_dir, facing, props, stick, action,
                    directional_action, held_actions, previous_held_actions,
                    previous_stick_positions, pressed, pending, ev_state,
                    intangible >>

\* The pushback of a sweep, by the collider that gave it (hundredths): a
\* floor, a ceiling, a wall, or none
pushback_of(kind) ==
    CASE kind = "floor" -> << 0, 100 >>
      [] kind = "ceiling" -> << 0, -100 >>
      [] kind = "wall" -> << 100, 0 >>
      [] OTHER -> ZERO

\* fighter.rs land: the collisions it does not skip
floor_normal(normal) == ~ ( normal[1] # 0 \/ normal[2] <= 0 )

\* a land that only lands an actor out of its Airdodge
land_updates_AirdodgeOnly(normal, s) ==
    IF floor_normal(pushback_of(normal)) /\ s \in { "Airdodge" }
    THEN << "LandCrouch" >> ELSE << >>

\* fighter.rs land: the updates it sends for a collision of the actor
land_updates(normal, s) ==
    IF floor_normal(pushback_of(normal)) /\ s \in { "Airdodge", "IdleAirborne" }
    THEN << "LandCrouch" >> ELSE << >>

\* fighter.rs land
land ==
    /\ pc = "land"
    /\ UNCHANGED wiring
    /\ ev_state' = ev_state \o land_updates(collision, state)
    /\ pc' = "go_airborne"
    /\ last' = Observed("none", FALSE)
    /\ UNCHANGED << state, airdodge_dir, frame, facing, props, stick, action,
                    directional_action, held_actions, previous_held_actions,
                    previous_stick_positions, pressed, pending, airborne,
                    collision, intangible, lemon_count, budget >>
    /\ UNCHANGED apart

\* fighter.rs go_airborne: the updates it sends for the actor
go_airborne_updates(flagged, s) ==
    IF flagged /\ is_grounded(s) THEN << "IdleAirborne" >> ELSE << >>

\* fighter.rs go_airborne
go_airborne ==
    /\ pc = "go_airborne"
    /\ UNCHANGED wiring
    /\ ev_state' = ev_state \o go_airborne_updates(airborne, state)
    /\ pc' = "update_fighter_state"
    /\ last' = Observed("none", FALSE)
    /\ UNCHANGED << state, airdodge_dir, frame, facing, props, stick, action,
                    directional_action, held_actions, previous_held_actions,
                    previous_stick_positions, pressed, pending, airborne,
                    collision, intangible, lemon_count, budget >>
    /\ UNCHANGED apart

\* update_fighter_state applying the first update of the queue only
AppliedUpdate_First(updates) == updates[1]

\* the state update_fighter_state leaves: it applies the updates read in
\* the order they were sent, each overwriting the one before
AppliedUpdate(updates) == updates[Len(updates)]

\* fighter.rs update_fighter_state
update_fighter_state ==
    /\ pc = "update_fighter_state"
    /\ UNCHANGED wiring
    /\ IF ev_state # << >>
       THEN /\ state' = AppliedUpdate(ev_state)
            /\ airdodge_dir' = ZERO
            /\ frame' = 0
            /\ last' = [ Observed("event", TRUE) EXCEPT
                           !.from = state, !.frame_was = frame ]
       ELSE /\ last' = Observed("none", FALSE)
            /\ UNCHANGED << state, airdodge_dir, frame >>
    /\ ev_state' = << >>
    /\ pc' = "update_state_transition_rules"
    /\ UNCHANGED << facing, props, stick, action, directional_action,
                    held_actions, previous_held_actions,
                    previous_stick_positions, pressed, pending, airborne,
                    collision, intangible, lemon_count, budget >>
    /\ UNCHANGED apart

\* a rule that is replaced only when the actor enters Attack
installed_for_AttackOnly(s, installed) ==
    IF s = "Attack" THEN s ELSE installed

\* the state whose rule the actor carries once update_state_transition_rules
\* has run: the query is filtered by Changed<FighterState>, and an actor
\* whose state was not written keeps the rule it has
installed_for(s, installed) ==
    IF s # installed THEN s ELSE installed

\* megaman.rs update_state_transition_rules
update_state_transition_rules ==
    /\ pc = "update_state_transition_rules"
    /\ UNCHANGED wiring
    /\ props' = installed_for(state, props)
    /\ pc' = "update_gravity"
    /\ last' = Observed("none", FALSE)
    /\ UNCHANGED << state, airdodge_dir, frame, facing, stick, action,
                    directional_action, held_actions, previous_held_actions,
                    previous_stick_positions, pressed, pending, airborne,
                    collision, ev_state, intangible, lemon_count, budget >>
    /\ UNCHANGED apart

\* fighter.rs update_gravity: Gravity is inserted for an actor whose state is
\* affected by gravity and removed from any other
update_gravity ==
    /\ pc = "update_gravity"
    /\ UNCHANGED wiring
    /\ gravity' = is_affected_by_gravity(state)
    /\ pc' = "update_intangible"
    /\ last' = Observed("none", FALSE)
    /\ UNCHANGED << state, airdodge_dir, frame, facing, props, stick, action,
                    directional_action, held_actions, previous_held_actions,
                    previous_stick_positions, pressed, pending, airborne,
                    collision, ev_state, intangible, lemon_count, budget >>
    /\ UNCHANGED << bodies, pulled >>

\* a remove_intangible that takes the marker from no actor
intangible_after_remove_Kept(flag, s, f) == flag

\* fighter.rs remove_intangible: of the actors With<Intangible>, those whose
\* state and frame are not intangible lose the marker
intangible_after_remove(flag, s, f) ==
    IF flag /\ ~is_intangible(s, f) THEN FALSE ELSE flag

\* fighter.rs add_intangible: of the actors Without<Intangible>, those whose
\* state and frame are intangible get the marker
intangible_after_add(flag, s, f) ==
    IF ~flag /\ is_intangible(s, f) THEN TRUE ELSE flag

\* fighter.rs remove_intangible and add_intangible, chained
update_intangible ==
    /\ pc = "update_intangible"
    /\ UNCHANGED wiring
    /\ intangible' =
          intangible_after_add(intangible_after_remove(intangible, state, frame),
                               state, frame)
    /\ pc' = "update_frame_count"
    /\ last' = Observed("none", FALSE)
    /\ UNCHANGED << state, airdodge_dir, frame, facing, props, stick, action,
                    directional_action, held_actions, previous_held_actions,
                    previous_stick_positions, pressed, pending, airborne,
                    collision, ev_state, lemon_count, budget >>
    /\ UNCHANGED apart

Next ==
    \/ update_frame_count
    \/ age_buffers
    \/ update_control_state_from_gamepad
    \/ buffer_actions_from_gamepad
    \/ detect_smash_input
    \/ detect_half_circle_input
    \/ apply_state_transition
    \/ turnaround_facing
    \/ shoot_lemon
    \/ accelerate_from_gravity
    \/ apply_velocity
    \/ land
    \/ go_airborne
    \/ update_fighter_state
    \/ update_state_transition_rules
    \/ update_gravity
    \/ update_intangible

Spec == Init /\ [][Next]_vars

-----------------------------------------------------------------------------
(* Specification SpecEvents: one tick of the event-writing machine.        *)
(*                                                                         *)
(*   update_frame_count                                                    *)
(*   InputSet:   as in Spec                                                *)
(*   Act:        the unordered group { transition_from_land_crouch,        *)
(*               transition_from_dash, transition_from_turnaround,         *)
(*               transition_from_run_turnaround, transition_from_airdodge, *)
(*               transition_from_jumpsquat, compute_common_side_effects }  *)
(*   PhysicsSet: apply_velocity                                            *)
(*   React:      land, go_airborne, update_fighter_state, ...              *)
(*                                                                         *)
(* fighter.rs reads the directional input as Option<&DirectionalAction>;   *)
(* it is Control.directional_action here.  No system of fighter.rs sends   *)
(* JumpSquat or Airdodge, so the actor is followed from Idle, from         *)
(* JumpSquat and from Airdodge.                                            *)

\* the variables no system of FighterEventSet::Act writes
act_untouched ==
    << wiring, airdodge_dir, frame, props, stick, action, held_actions,
       previous_held_actions, previous_stick_positions, pressed, airborne,
       collision, intangible, lemon_count, budget, state >>

InitEvents ==
    /\ wiring = "events"
    /\ pc = "update_frame_count"
    /\ state \in { "Idle", "JumpSquat", "Airdodge" }
    /\ airdodge_dir = ZERO
    /\ frame = 0
    /\ facing \in { "Left", "Right" }
    /\ props = state
    /\ stick = ZERO
    /\ action = NoInput
    /\ directional_action = NoInput
    /\ held_actions = {}
    /\ previous_held_actions = {}
    /\ previous_stick_positions = << >>
    /\ pressed = {}
    /\ pending = {}
    /\ airborne = FALSE
    /\ collision \in { "floor", "none" }
    /\ ev_state = << >>
    /\ intangible = FALSE
    /\ lemon_count = 0
    /\ budget = MaxEvents
    /\ last = [ applied |-> "none", reset |-> FALSE, interrupt |-> NoState,
                new_input |-> FALSE, from |-> state, frame_was |-> 0 ]
    /\ ApartAtRest

\* what the systems of FighterEventSet::Act share between them
ActShared ==
    [ updates |-> ev_state, facing |-> facing, da |-> directional_action ]

\* one system of FighterEventSet::Act runs; the group is left once each of
\* its systems has run
ActStep(me, after) ==
    /\ pc = "act_group"
    /\ me \in pending
    /\ ev_state' = after.updates
    /\ facing' = after.facing
    /\ directional_action' = after.da
    /\ pending' = pending \ { me }
    /\ pc' = IF pending # { me } THEN pc
             ELSE IF wiring = "physics" THEN "set_velocity"
             ELSE "accelerate_from_gravity"
    /\ last' = Observed("none", FALSE)
    /\ UNCHANGED act_untouched

\* what no system of FighterEventSet::Act touches of the physics of the
\* actor, the commands it sends apart
act_sends_to ==
    << velocity, friction, target_velocity, position, collider, entities_kept,
       gravity, pulled >>

\* the commands a system of FighterEventSet::Act leaves in the queues: they
\* are followed where the physics of the actor is
ActSends(accelerate, set, add) ==
    IF wiring = "physics"
    THEN /\ ev_accelerate' = ev_accelerate \o accelerate
         /\ ev_set_velocity' = ev_set_velocity \o set
         /\ ev_add_velocity' = ev_add_velocity \o add
         /\ UNCHANGED act_sends_to
    ELSE UNCHANGED apart

\* FighterState::has_neutral_friction
has_neutral_friction(s) ==
    s \in { "Idle", "LandCrouch", "Crouch", "EnterCrouch", "ExitCrouch" }

\* Vec2::normalize_or_zero times a speed, for a stick on an axis
stick_times(st, speed) ==
    << ( IF st[1] > 0 THEN 1 ELSE IF st[1] < 0 THEN -1 ELSE 0 ) * speed,
       ( IF st[2] > 0 THEN 1 ELSE IF st[2] < 0 THEN -1 ELSE 0 ) * speed >>

\* compute_common_side_effects: the AccelerateTowards events it sends, that
\* of Walk or Run when the arm of the state sends no update, then the
\* neutral friction of a grounded state
accelerations_sent(s, fac, st, da) ==
    LET specific == SpecificSideEffects(s, fac, st, da)
        quiet == specific.updates = << >> /\ ~specific.returned
        towards(target) ==
            << [ target |-> target,
                 acceleration |-> FighterProperties.ground_friction ] >>
    IN  ( IF s = "Walk" /\ quiet
          THEN towards(<< (st[1] * FighterProperties.walk_speed) \div 100,
                          0 >>)
          ELSE IF s = "Run" /\ quiet
          THEN towards(stick_times(<< st[1], 0 >>,
                                   FighterProperties.dash_speed))
          ELSE << >> )
        \o ( IF ~specific.returned /\ is_grounded(s)
                /\ has_neutral_friction(s)
             THEN towards(ZERO) ELSE << >> )

\* compute_common_side_effects: the SetVelocity events it sends, on the
\* first frame of Airdodge and of Dash
velocities_set(s, f, fac, st, da) ==
    LET specific == SpecificSideEffects(s, fac, st, da)
    IN  IF specific.returned THEN << >>
        ELSE IF s = "Airdodge" /\ f = 1
        THEN << stick_times(st, AIRDODGE_INITIAL_SPEED) >>
        ELSE IF s = "Dash" /\ f = 1
        THEN << << ( IF specific.facing = "Left" THEN -1 ELSE 1 )
                     * FighterProperties.dash_speed, 0 >> >>
        ELSE << >>

\* transition_from_jumpsquat: the SetVelocity it sends with Shield held
jumpsquat_velocity_set(f, held, st) ==
    IF f = FighterProperties.jumpsquat_duration /\ "Shield" \in held
    THEN << stick_times(st, AIRDODGE_INITIAL_SPEED) >> ELSE << >>

\* transition_from_jumpsquat: the AddVelocity it sends otherwise, the jump
\* speed with Jump held and jump_speed * 0.5.sqrt() (to the hundredth) for a
\* short hop
jumpsquat_velocity_added(f, held) ==
    IF f = FighterProperties.jumpsquat_duration /\ "Shield" \notin held
    THEN << << 0, IF "Jump" \in held THEN FighterProperties.jump_speed
                  ELSE SHORT_HOP_SPEED >> >>
    ELSE << >>

transition_from_land_crouch ==
    /\ state = "LandCrouch"
    /\ ActStep("transition_from_land_crouch",
               timed_effects(state, frame, held_actions, ActShared))
    /\ UNCHANGED apart

transition_from_dash ==
    /\ state = "Dash"
    /\ ActStep("transition_from_dash",
               timed_effects(state, frame, held_actions, ActShared))
    /\ UNCHANGED apart

transition_from_turnaround ==
    /\ state = "Turnaround"
    /\ ActStep("transition_from_turnaround",
               timed_effects(state, frame, held_actions, ActShared))
    /\ UNCHANGED apart

transition_from_run_turnaround ==
    /\ state = "RunTurnaround"
    /\ ActStep("transition_from_run_turnaround",
               timed_effects(state, frame, held_actions, ActShared))
    /\ UNCHANGED apart

transition_from_airdodge ==
    /\ state = "Airdodge"
    /\ ActStep("transition_from_airdodge",
               timed_effects(state, frame, held_actions, ActShared))
    /\ ActSends(<< >>,
                IF frame = FighterProperties.airdodge_duration
                THEN << ZERO >> ELSE << >>,
                << >>)

transition_from_jumpsquat ==
    /\ state = "JumpSquat"
    /\ ActStep("transition_from_jumpsquat",
               timed_effects(state, frame, held_actions, ActShared))
    /\ ActSends(<< >>,
                jumpsquat_velocity_set(frame, held_actions, stick),
                jumpsquat_velocity_added(frame, held_actions))

compute_common_side_effects ==
    /\ state \in FighterStates
    /\ ActStep("compute_common_side_effects",
               common_side_effects(state, frame, stick, ActShared))
    /\ ActSends(accelerations_sent(state, facing, stick, directional_action),
                velocities_set(state, frame, facing, stick,
                               directional_action),
                << >>)

NextEvents ==
    \/ update_frame_count
    \/ age_buffers
    \/ update_control_state_from_gamepad
    \/ detect_smash_input
    \/ transition_from_land_crouch
    \/ transition_from_dash
    \/ transition_from_turnaround
    \/ transition_from_run_turnaround
    \/ transition_from_airdodge
    \/ transition_from_jumpsquat
    \/ compute_common_side_effects
    \/ accelerate_from_gravity
    \/ apply_velocity
    \/ land
    \/ go_airborne
    \/ update_fighter_state
    \/ update_state_transition_rules
    \/ update_gravity
    \/ update_intangible

SpecEvents == InitEvents /\ [][NextEvents]_vars

-----------------------------------------------------------------------------
(* Specification SpecPSM: main.rs, the state machine written as the        *)
(* PlayerStateMachine component, and the FixedUpdate chain that drives it: *)
(*                                                                         *)
(*   read_player_input (Update schedule; once per tick here)               *)
(*   apply_player_input                                                    *)
(*   apply_velocity_to_players (the sweep is the environment's choice)     *)
(*   update_intangible_tag                                                 *)
(*   advance_frame                                                         *)
(*                                                                         *)
(* PlayerInput.control is stick, PlayerInput._last_control is the one      *)
(* element of previous_stick_positions, PlayerInput.dash is                *)
(* directional_action and PlayerInput.buffered_action is action.           *)

\* the associated constants of impl PlayerStateMachine (the frame numbers)
PSM ==
    [ LANDING_LAG |-> 12, IDLE_CYCLE |-> 240, JUMPSQUAT |-> 5,
      DASH_DURATION |-> 20, AIRDODGE_DURATION_FRAMES |-> 30,
      AIRDODGE_INTANGIBLE_START |-> 4, AIRDODGE_INTANGIBLE_END |-> 20,
      TURNAROUND_DURATION_FRAMES |-> 14,
      TURNAROUND_THRESHOLD_FRAME |-> 14 \div 2,
      RUN_TURNAROUND_DURATION_FRAMES |-> 14,
      RUN_TURNAROUND_THRESHOLD_FRAME |-> 14 \div 2,
      RUN_END |-> 2 ]

\* const INPUT_BUFFER_SIZE, HORIZONTAL_DEADZONE, DASH_THRESHOLD (hundredths)
INPUT_BUFFER_SIZE == 10
HORIZONTAL_DEADZONE == 30
DASH_THRESHOLD == 90

\* BasicState::is_grounded
psm_is_grounded(s) ==
    s \in { "Idle", "LandCrouch", "JumpSquat", "Walk", "Turnaround",
            "RunTurnaround", "RunEnd", "Dash", "Run" }

\* PlayerStateMachine::is_intangible
psm_is_intangible(s, f) ==
    s = "Airdodge" /\ PSM.AIRDODGE_INTANGIBLE_START <= f
                   /\ f <= PSM.AIRDODGE_INTANGIBLE_END

\* the controls the environment can deliver to read_player_input: neutral,
\* a tilt and a full deflection to either side
Controls == { ZERO, << 50, 0 >>, << -50, 0 >>, << 100, 0 >>, << -100, 0 >> }

\* PlayerInputs::set_control: the dash it records for a new control
set_control_dash(control, old_control, last_control) ==
    IF /\ control[1] > DASH_THRESHOLD
       /\ \/ old_control[1] < HORIZONTAL_DEADZONE
          \/ last_control[1] < HORIZONTAL_DEADZONE
    THEN [ kind |-> "Some", value |-> "Right" ]
    ELSE IF /\ control[1] < -DASH_THRESHOLD
            /\ \/ old_control[1] > -HORIZONTAL_DEADZONE
               \/ last_control[1] > -HORIZONTAL_DEADZONE
    THEN [ kind |-> "Some", value |-> "Left" ]
    ELSE NoInput

\* BufferedPlayerButton::aged under Option::map(..).flatten()
aged(b) ==
    IF b.kind = "None" THEN b
    ELSE IF b.age + 1 <= INPUT_BUFFER_SIZE THEN [ b EXCEPT !.age = b.age + 1 ]
    ELSE NoInput

\* PlayerStateMachine::apply_input: the state set_new_state is called with
\* (NoState when it is not called), the facing, and the BufferResult
psm_apply_input(s, fac, button, dash, x) ==
    LET keep == [ state |-> NoState, facing |-> fac, accepted |-> FALSE ]
        to(n) == [ keep EXCEPT !.state = n ]
        control_direction == IF x < 0 THEN "Left" ELSE "Right"
        neutral == Abs(x) < HORIZONTAL_DEADZONE
    IN  IF s \in { "Idle", "Turnaround" } /\ dash.kind = "Some"
        THEN [ state |-> "Dash", facing |-> dash.value, accepted |-> FALSE ]
        ELSE IF s = "Dash" /\ dash.kind = "Some"
        THEN IF dash.value # fac
             THEN [ state |-> "Dash", facing |-> dash.value, accepted |-> FALSE ]
             ELSE keep
        ELSE IF s \in { "Idle", "Dash", "Run", "Walk", "Turnaround" }
                /\ button = "Jump"
        THEN [ state |-> "JumpSquat", facing |-> fac, accepted |-> TRUE ]
        ELSE IF s = "Idle" /\ button = "none"
        THEN IF neutral THEN keep
             ELSE IF control_direction # fac THEN to("Turnaround")
             ELSE to("Walk")
        ELSE IF s = "Run" /\ button = "none"
        THEN IF neutral THEN to("RunEnd")
             ELSE IF control_direction # fac THEN to("RunTurnaround")
             ELSE keep
        ELSE IF s = "RunEnd" /\ button = "none"
        THEN IF neutral THEN keep
             ELSE IF control_direction # fac THEN to("RunTurnaround")
             ELSE keep
        ELSE IF s = "Walk" /\ dash.kind = "Some"
        THEN IF fac = dash.value THEN to("Dash") ELSE keep
        ELSE IF s = "Walk" /\ button = "none"
        THEN IF neutral THEN to("Idle")
             ELSE IF control_direction # fac THEN to("Turnaround")
             ELSE keep
        ELSE IF s \in { "IdleAirborne", "JumpSquat" } /\ button = "Shield"
        THEN [ state |-> "Airdodge", facing |-> fac, accepted |-> TRUE ]
        ELSE keep

\* PlayerStateMachine::advance_frame: the state set_new_state is called with
\* on the incremented frame count f (NoState when it is not called)
psm_timed(s, f) ==
    CASE s = "LandCrouch" /\ f = PSM.LANDING_LAG -> "Idle"
      [] s = "Turnaround" /\ f = PSM.TURNAROUND_DURATION_FRAMES -> "Idle"
      [] s = "RunTurnaround" /\ f = PSM.RUN_TURNAROUND_DURATION_FRAMES -> "Run"
      [] s = "Airdodge" /\ f = PSM.AIRDODGE_DURATION_FRAMES -> "IdleAirborne"
      [] s = "Dash" /\ f = PSM.DASH_DURATION -> "Run"
      [] s = "RunEnd" /\ f = PSM.RUN_END -> "Idle"
      [] OTHER -> NoState

\* a facing that flips on every frame from the threshold on
psm_flips_FromThreshold(s, f) ==
    \/ s = "Turnaround" /\ f >= PSM.TURNAROUND_THRESHOLD_FRAME
    \/ s = "RunTurnaround" /\ f >= PSM.RUN_TURNAROUND_THRESHOLD_FRAME

\* PlayerStateMachine::advance_frame: whether facing flips on the
\* incremented frame count f
psm_flips(s, f) ==
    \/ s = "Turnaround" /\ f = PSM.TURNAROUND_THRESHOLD_FRAME
    \/ s = "RunTurnaround" /\ f = PSM.RUN_TURNAROUND_THRESHOLD_FRAME

\* a frame count that also restarts when facing flips
psm_frame_RestartOnFlip(s, f) ==
    IF psm_timed(s, f) # NoState THEN 0
    ELSE IF s = "Idle" /\ f = PSM.IDLE_CYCLE THEN 0
    ELSE IF psm_flips(s, f) THEN 0
    ELSE f

\* PlayerStateMachine::advance_frame: the frame count it leaves, f being
\* the incremented one
psm_frame(s, f) ==
    IF psm_timed(s, f) # NoState THEN 0
    ELSE IF s = "Idle" /\ f = PSM.IDLE_CYCLE THEN 0
    ELSE f

\* the last frame count on which advance_frame has an arm for state s
psm_last_arm(s) ==
    CASE s = "LandCrouch" -> PSM.LANDING_LAG
      [] s = "Idle" -> PSM.IDLE_CYCLE
      [] s = "Turnaround" -> PSM.TURNAROUND_DURATION_FRAMES
      [] s = "RunTurnaround" -> PSM.RUN_TURNAROUND_DURATION_FRAMES
      [] s = "Airdodge" -> PSM.AIRDODGE_DURATION_FRAMES
      [] s = "Dash" -> PSM.DASH_DURATION
      [] s = "RunEnd" -> PSM.RUN_END
      [] OTHER -> 0

\* the variables the FixedUpdate chain of main.rs does not have
psm_unused ==
    << wiring, airdodge_dir, props, held_actions, previous_held_actions,
       pending, airborne, ev_state, lemon_count >>

\* what the gamepads deliver to one call of read_player_input: the control
\* and the button of the actor's own gamepad, and whether another gamepad
\* has North or East just pressed, with its place in Gamepads::iter
NoSample == [ control |-> ZERO, button |-> "none", other |-> "none" ]

\* read_player_input, `return` after buffer_button(.., Jump): the loop over
\* the gamepads stops at the first gamepad with North or East just pressed,
\* and the gamepads that come after it are not read
is_read(sample) == sample.other # "jump_before"

\* the observation of a step: whether set_new_state was called, the flips
\* of facing and the calls of advance_frame since it was last called (or
\* since the idle cycle last restarted)
ObservedPSM(applied, from, flipped, advanced, restarted) ==
    [ last EXCEPT
        !.applied = applied,
        !.reset = (applied # "none"),
        !.from = IF applied # "none" THEN from ELSE @,
        !.flips = IF applied # "none" THEN 0
                  ELSE IF flipped THEN @ + 1 ELSE @,
        !.ticks = IF applied # "none" \/ restarted THEN 0
                  ELSE IF advanced THEN @ + 1 ELSE @ ]

InitPSM ==
    /\ wiring = "psm"
    /\ pc = "read_player_input"
    /\ state = "Idle"
    /\ airdodge_dir = ZERO
    /\ frame = 0
    /\ facing = "Right"
    /\ props = "Idle"
    /\ stick = ZERO
    /\ action = NoInput
    /\ directional_action = NoInput
    /\ held_actions = {}
    /\ previous_held_actions = {}
    /\ previous_stick_positions = << ZERO >>
    /\ pressed = NoSample
    /\ pending = {}
    /\ airborne = FALSE
    /\ collision \in { "floor", "none" }
    /\ ev_state = << >>
    /\ intangible = FALSE
    /\ lemon_count = 0
    /\ budget = MaxEvents
    /\ last = [ applied |-> "none", reset |-> FALSE, from |-> "Idle",
                flips |-> 0, ticks |-> 0 ]
    /\ ApartAtRest

\* main.rs read_player_input: the environment moves the stick, or presses
\* Jump or Shield, or presses Jump on another gamepad, or changes nothing;
\* it changes its input during the first MaxFrame frames of a state only
read_player_input ==
    /\ pc = "read_player_input"
    /\ \E control \in Controls, button \in { "Jump", "Shield", "none" },
          other \in { "none", "jump_before", "jump_after" } :
          LET sample == [ control |-> control, button |-> button,
                          other |-> other ]
              changed == control # stick \/ button # "none" \/ other # "none"
              several == \/ control # stick /\ button # "none"
                         \/ control # stick /\ other # "none"
                         \/ button # "none" /\ other # "none"
          IN  /\ changed => budget > 0 /\ frame < MaxFrame
              /\ ~several
              /\ budget' = IF changed THEN budget - 1 ELSE budget
              /\ pressed' = sample
              /\ IF is_read(sample)
                 THEN /\ directional_action' =
                            set_control_dash(control, stick,
                                             previous_stick_positions[1])
                      /\ previous_stick_positions' = << stick >>
                      /\ stick' = control
                      /\ action' =
                            IF button # "none"
                            THEN [ kind |-> "Some", value |-> button, age |-> 0 ]
                            ELSE action
                 ELSE UNCHANGED << directional_action, previous_stick_positions,
                                   stick, action >>
    /\ pc' = "apply_player_input"
    /\ last' = ObservedPSM("none", state, FALSE, FALSE, FALSE)
    /\ UNCHANGED << state, frame, facing, collision, intangible >>
    /\ UNCHANGED psm_unused
    /\ UNCHANGED apart

\* main.rs apply_player_input
apply_player_input ==
    /\ pc = "apply_player_input"
    /\ LET button == IF action.kind = "Some" THEN action.value ELSE "none"
           result == psm_apply_input(state, facing, button,
                                     directional_action, stick[1])
       IN  /\ state' = IF result.state # NoState THEN result.state ELSE state
           /\ frame' = IF result.state # NoState THEN 0 ELSE frame
           /\ facing' = result.facing
           /\ action' = IF result.accepted THEN NoInput ELSE action
           /\ last' = ObservedPSM(IF result.state # NoState THEN "input"
                                  ELSE "none", state, FALSE, FALSE, FALSE)
    /\ pc' = "apply_velocity_to_players"
    /\ UNCHANGED << stick, directional_action, previous_stick_positions,
                    collision, intangible, budget >>
    /\ UNCHANGED << pressed, psm_unused >>
    /\ UNCHANGED apart

\* main.rs MAX_FLOOR_SLOPE (hundredths)
MAX_FLOOR_SLOPE == 10

\* main.rs apply_velocity_to_players: the pushbacks it hands to land
psm_floor_pushback(pushback) ==
    /\ pushback[2] # 0
    /\ Abs(pushback[1]) * 100 <= MAX_FLOOR_SLOPE * Abs(pushback[2])

\* main.rs apply_velocity_to_players with PlayerStateMachine::land and
\* go_airborne.  The sweep is the environment's choice: the pushback of a
\* floor ("floor") or of a ceiling ("ceiling"), no pushback with a vertical
\* velocity ("none"), or no pushback without one ("rest", which takes an
\* actor that gravity does not pull)
apply_velocity_to_players ==
    /\ pc = "apply_velocity_to_players"
    /\ \E outcome \in { "floor", "ceiling", "none", "rest" } :
          LET new_state ==
                  IF psm_floor_pushback(pushback_of(outcome))
                     /\ state \in { "IdleAirborne", "Airdodge" }
                  THEN "LandCrouch"
                  ELSE IF outcome = "none" /\ psm_is_grounded(state)
                  THEN "IdleAirborne"
                  ELSE NoState
          IN  /\ outcome = "rest" => state = "Airdodge"
              /\ outcome = "ceiling" => ~ psm_is_grounded(state)
              /\ outcome # collision => budget > 0
              /\ budget' = IF outcome # collision THEN budget - 1 ELSE budget
              /\ collision' = outcome
              /\ state' = IF new_state # NoState THEN new_state ELSE state
              /\ frame' = IF new_state # NoState THEN 0 ELSE frame
              /\ last' = ObservedPSM(IF new_state # NoState THEN "physics"
                                     ELSE "none", state, FALSE, FALSE, FALSE)
    /\ pc' = "update_intangible_tag"
    /\ UNCHANGED << facing, stick, action, directional_action,
                    previous_stick_positions, intangible >>
    /\ UNCHANGED << pressed, psm_unused >>
    /\ UNCHANGED apart

\* main.rs update_intangible_tag
update_intangible_tag ==
    /\ pc = "update_intangible_tag"
    /\ intangible' = psm_is_intangible(state, frame)
    /\ pc' = "advance_frame"
    /\ last' = ObservedPSM("none", state, FALSE, FALSE, FALSE)
    /\ UNCHANGED << state, frame, facing, stick, action, directional_action,
                    previous_stick_positions, collision, budget >>
    /\ UNCHANGED << pressed, psm_unused >>
    /\ UNCHANGED apart

\* main.rs advance_frame: PlayerStateMachine::advance_frame, then
\* PlayerInputs::advance_frame.  A state for which advance_frame has no arm
\* is followed for MaxFrame frames.
advance_frame ==
    /\ pc = "advance_frame"
    /\ frame < Max(MaxFrame, psm_last_arm(state))
    /\ LET f == frame + 1
           new_state == psm_timed(state, f)
       IN  /\ state' = IF new_state # NoState THEN new_state ELSE state
           /\ frame' = psm_frame(state, f)
           /\ facing' = IF psm_flips(state, f) THEN Flip(facing) ELSE facing
           /\ last' = ObservedPSM(IF new_state # NoState THEN "timed" ELSE "none",
                                  state, psm_flips(state, f), TRUE,
                                  new_state = NoState /\ psm_frame(state, f) = 0)
    /\ action' = aged(action)
    /\ pc' = "read_player_input"
    /\ UNCHANGED << stick, directional_action, previous_stick_positions,
                    collision, intangible, budget >>
    /\ UNCHANGED << pressed, psm_unused >>
    /\ UNCHANGED apart

NextPSM ==
    \/ read_player_input
    \/ apply_player_input
    \/ apply_velocity_to_players
    \/ update_intangible_tag
    \/ advance_frame

SpecPSM == InitPSM /\ [][NextPSM]_vars

-----------------------------------------------------------------------------
(* Properties of Spec.                                                     *)

\* the interrupt apply_state_transition has available in a state: the
\* getter of the rule in force, once frame-in-state has reached the threshold
AvailableInterrupt ==
    LET rule == rule_in_force(props)
    IN  IF rule.iasa.kind = "Some" /\ frame >= rule.iasa.frame
        THEN state_getter(rule.iasa.state_getter, Data)
        ELSE NoState

\* the natural end apply_state_transition has available in a state
AvailableEnd ==
    LET rule == rule_in_force(props)
    IN  IF rule.end.kind = "OnFrame" /\ frame >= rule.end.frame
        THEN rule.end.next_state
        ELSE NoState

\* the buffer policy of a transition to state s, as a relation between the
\* buffers before (a, da) and after (a2, da2)
BufferPolicy(s, a, da, a2, da2) ==
    IF s \in { "Dash", "Moonwalk" } THEN da2 = NoInput /\ a2 = a
    ELSE IF s = "Airdodge" THEN da2 = NoInput /\ a2 = NoInput
    ELSE a2 = NoInput /\ da2 = da

C2_InterruptBeforeNaturalEnd ==
    [][ pc = "apply_state_transition"
        => /\ AvailableInterrupt # NoState /\ AvailableEnd # NoState
              => /\ state' = AvailableInterrupt
                 /\ last'.applied = "interrupt"
           /\ last'.applied = "end"
              => /\ AvailableInterrupt = NoState
                 /\ state' = AvailableEnd ]_vars

\* an interrupt applied on a frame at which the natural end was due
C2_Witness ==
    /\ pc = "turnaround_facing"
    /\ last.applied = "interrupt" /\ state = last.interrupt /\ frame = 0
    /\ rule_in_force(last.from).end.kind = "OnFrame"
    /\ last.frame_was >= rule_in_force(last.from).end.frame

\* C4, as stated: after any transition of apply_state_transition, by
\* interrupt or by natural end, the state is the target, the counter is 0
\* and the buffers follow the policy of the target.
C4_BuffersClearedOnAnyTransition ==
    [][ pc = "apply_state_transition" /\ last'.applied # "none"
        => /\ state' = IF AvailableInterrupt # NoState
                       THEN AvailableInterrupt ELSE AvailableEnd
           /\ frame' = 0
           /\ BufferPolicy(state', action, directional_action,
                           action', directional_action') ]_vars

\* C4, amended: after an interrupt the state is the interrupt's target, the
\* counter is 0 and the buffers follow the policy of the target; after a
\* natural end the state is next_state, the counter is 0 and both buffers
\* are as they were.
C4_BuffersClearedOnInterrupt ==
    [][ pc = "apply_state_transition" /\ last'.applied # "none"
        => /\ frame' = 0
           /\ last'.applied = "interrupt" =>
                 /\ state' = AvailableInterrupt
                 /\ BufferPolicy(state', action, directional_action,
                                 action', directional_action')
           /\ last'.applied = "end" =>
                 /\ state' = AvailableEnd
                 /\ action' = action
                 /\ directional_action' = directional_action ]_vars

\* a natural end applied while a press is still buffered
C4_Witness ==
    /\ pc = "turnaround_facing"
    /\ last.applied = "end" /\ frame = 0
    /\ action.kind = "Some"

C6_IntangibleOnlyInsideAirdodge ==
    pc = "update_intangible" /\ is_intangible(state, frame)
    => state = "Airdodge" /\ 0 < frame /\ frame < AIRDODGE_DURATION_FRAMES

\* intangibility evaluated on the last frame of an Airdodge
C6_Witness ==
    /\ pc = "update_intangible"
    /\ state = "Airdodge" /\ frame = AIRDODGE_DURATION_FRAMES - 1
    /\ is_intangible(state, frame)

-----------------------------------------------------------------------------
(* Properties of SpecEvents.                                               *)

\* the state the actor was in when the reaction systems started
StateBeforeReaction == IF last.applied = "event" THEN last.from ELSE state

\* C3: once update_fighter_state has run, an actor flagged airborne that was
\* in a grounded state when the reaction started is in IdleAirborne with
\* frame 0, whatever updates were sent for it earlier in the tick.
C3_AirborneForcesIdleAirborne ==
    pc = "update_state_transition_rules" /\ airborne
    /\ is_grounded(StateBeforeReaction)
    => state = "IdleAirborne" /\ frame = 0

\* an actor in Idle with the stick held sideways, for which
\* compute_common_side_effects sent an update of its own, left airborne
C3_Witness ==
    /\ pc = "update_state_transition_rules" /\ airborne
    /\ last.applied = "event" /\ last.from = "Idle" /\ stick[1] # 0
    /\ state = "IdleAirborne" /\ frame = 0

\* C8: an actor in LandCrouch before land_crouch_duration leaves LandCrouch
\* only for IdleAirborne, on a tick where it is flagged airborne.
C8_LandCrouchHeldUntilThreshold ==
    [][ pc = "update_fighter_state" /\ state = "LandCrouch"
        /\ frame < FighterProperties.land_crouch_duration
        /\ state' # state
        => state' = "IdleAirborne" /\ airborne ]_vars

\* what a run of FighterEventSet::Act leaves for the rest of the tick: the
\* state its updates give the actor, the facing, the directional input
ActOutcome(x) ==
    [ state |-> IF x.updates = << >> THEN state ELSE AppliedUpdate(x.updates),
      facing |-> x.facing,
      da |-> x.da ]

\* system `me` of FighterEventSet::Act on x
ActEffect(me, x) ==
    IF me = "compute_common_side_effects"
    THEN common_side_effects(state, frame, stick, x)
    ELSE timed_effects(state, frame, held_actions, x)

\* C10: when FighterEventSet::Act starts, its two systems that reach the
\* actor leave the same outcome in either order.
C10_ActOrderIndependent ==
    pc = "act_group" /\ pending = ActGroup(state)
    => \A a \in pending, b \in pending :
          ActOutcome(ActEffect(b, ActEffect(a, ActShared)))
              = ActOutcome(ActEffect(a, ActEffect(b, ActShared)))

-----------------------------------------------------------------------------
(* Properties of SpecPSM.                                                  *)

C11_OwnInputOnly ==
    [][ pc = "read_player_input"
        => /\ stick' = pressed'.control
           /\ directional_action' =
                  set_control_dash(pressed'.control, stick,
                                   previous_stick_positions[1])
           /\ pressed'.button # "none"
                  => action'.kind = "Some" /\ action'.value = pressed'.button
           /\ pressed'.button = "none" => action' = action ]_vars

-----------------------------------------------------------------------------
(* The wiring of Spec, followed from an actor that is running.             *)
(*                                                                         *)
(* An actor whose Dash has run to its natural end with the stick held is   *)
(* in Run at frame 0 when the next tick starts: the stick is at its        *)
(* extreme in the direction of facing, the stick history holds that same   *)
(* sample and both buffers have expired.                                   *)

\* the stick held at its extreme in direction d
Held(d) == IF d = "Left" THEN << -100, 0 >> ELSE << 100, 0 >>

InitRun ==
    /\ wiring = "rule"
    /\ pc = "update_frame_count"
    /\ state = "Run"
    /\ airdodge_dir = ZERO
    /\ frame = 0
    /\ facing \in { "Left", "Right" }
    /\ props = "Run"
    /\ stick = Held(facing)
    /\ action = NoInput
    /\ directional_action = NoInput
    /\ held_actions = {}
    /\ previous_held_actions = {}
    /\ previous_stick_positions = [ i \in 1..HistoryKept |-> Held(facing) ]
    /\ pressed = {}
    /\ pending = {}
    /\ airborne = FALSE
    /\ collision = "floor"
    /\ ev_state = << >>
    /\ intangible = FALSE
    /\ lemon_count = 0
    /\ budget = MaxEvents
    /\ last = [ applied |-> "none", reset |-> FALSE, interrupt |-> NoState,
                new_input |-> FALSE, from |-> "Run", frame_was |-> 0 ]
    /\ ApartAtRest

SpecRun == InitRun /\ [][Next]_vars

\* the state of InitRun as Spec reaches it
RunReached ==
    /\ pc = "update_frame_count" /\ state = "Run" /\ frame = 0
    /\ props = "Run" /\ stick = Held(facing)
    /\ previous_stick_positions = [ i \in 1..HistoryKept |-> Held(facing) ]
    /\ action = NoInput /\ directional_action = NoInput
    /\ held_actions = {} /\ collision = "floor" /\ ~airborne

-----------------------------------------------------------------------------
(* Properties of SpecRun.                                                  *)

\* the stick points opposite to facing
StickReversed ==
    /\ get_cardinal_direction(stick) # "None"
    /\ get_cardinal_direction(stick) = Flip(facing)

\* C12: apply_state_transition takes an actor from RunEnd to RunTurnaround
\* only if the stick points opposite to its facing, and an actor that leaves
\* RunEnd by its natural end with the stick not reversed goes to Idle.
C12_RunEndTurnsOnlyOnReversal ==
    [][ pc = "apply_state_transition" /\ state = "RunEnd"
        => /\ state' = "RunTurnaround" => StickReversed
           /\ last'.applied = "end" /\ ~StickReversed => state' = "Idle" ]_vars

-----------------------------------------------------------------------------
(* Properties of the Idle interrupt, under Spec and under SpecEvents.      *)

\* the targets of the Idle interrupt in their order of priority
IdleTargets ==
    << "Dash", "Attack", "JumpSquat", "Turnaround", "Walk", "EnterCrouch" >>

\* the condition of the k-th target of the Idle interrupt on the input of
\* the actor
IdleCondition(k) ==
    CASE k = 1 -> /\ directional_action.kind = "Some"
                  /\ directional_action.value.type = "Smash"
                  /\ directional_action.value.dir \in { "Left", "Right" }
      [] k = 2 -> action.kind = "Some" /\ action.value = "Attack"
      [] k = 3 -> action.kind = "Some" /\ action.value = "Jump"
      [] k = 4 -> /\ Abs(stick[1]) >= Abs(stick[2]) /\ stick[1] # 0
                  /\ (IF stick[1] > 0 THEN "Right" ELSE "Left") = Flip(facing)
      [] k = 5 -> /\ Abs(stick[1]) >= Abs(stick[2]) /\ stick[1] # 0
                  /\ (IF stick[1] > 0 THEN "Right" ELSE "Left") = facing
      [] OTHER -> stick[2] < -CROUCH_THRESHOLD

\* the step on which the input of an actor in Idle is turned into a
\* transition: apply_state_transition under the wiring of fighter_state.rs,
\* compute_common_side_effects under the wiring of fighter.rs
IdleInterruptStep ==
    /\ state = "Idle"
    /\ \/ wiring \in RuleWirings /\ pc = "apply_state_transition"
          /\ props = "Idle"
       \/ wiring = "events" /\ pc = "act_group"

\* C13: from Idle, the target chosen is never one of lower priority than a
\* target whose condition holds, and a target is chosen whenever the
\* condition of Dash, Attack, JumpSquat, Turnaround or Walk holds.
C13_IdlePriorityOrder ==
    [][ IdleInterruptStep
        => LET chosen == IF wiring \in RuleWirings
                         THEN (IF last'.applied = "interrupt"
                               THEN state' ELSE NoState)
                         ELSE (IF ev_state' # << >>
                               THEN ev_state'[Len(ev_state')] ELSE NoState)
           IN  \A k \in 1..6 :
                  /\ chosen = IdleTargets[k]
                        => \A j \in 1..(k - 1) : ~IdleCondition(j)
                  /\ k < 6 /\ IdleCondition(k)
                        => chosen # NoState ]_vars

-----------------------------------------------------------------------------
(* try_turnaround and try_walk on the stick vectors of a grid.             *)

\* the grid has 2 * GridSteps + 1 coordinates on each axis, from -1.0 to 1.0
GridSteps == 4

GridCoordinates == { k * (100 \div GridSteps) : k \in (-GridSteps)..GridSteps }

InitStick ==
    /\ wiring = "stick"
    /\ pc = "try_turnaround_try_walk"
    /\ state = "Idle"
    /\ airdodge_dir = ZERO
    /\ frame = 0
    /\ facing \in { "Left", "Right" }
    /\ props = "Idle"
    /\ stick \in GridCoordinates \X GridCoordinates
    /\ action = NoInput
    /\ directional_action = NoInput
    /\ held_actions = {}
    /\ previous_held_actions = {}
    /\ previous_stick_positions = << >>
    /\ pressed = {}
    /\ pending = {}
    /\ airborne = FALSE
    /\ collision = "floor"
    /\ ev_state = << >>
    /\ intangible = FALSE
    /\ lemon_count = 0
    /\ budget = 0
    /\ last = [ applied |-> "none", reset |-> FALSE, interrupt |-> NoState,
                new_input |-> FALSE, from |-> "Idle", frame_was |-> 0 ]
    /\ ApartAtRest

\* try_turnaround(&data) and try_walk(&data) for the actor: ev_state holds
\* the two results
try_turnaround_try_walk ==
    /\ pc = "try_turnaround_try_walk"
    /\ ev_state' = << try_turnaround(Data), try_walk(Data) >>
    /\ pc' = "done"
    /\ UNCHANGED << wiring, state, airdodge_dir, frame, facing, props, stick,
                    action, directional_action, held_actions,
                    previous_held_actions, previous_stick_positions, pressed,
                    pending, airborne, collision, intangible, lemon_count,
                    budget, last >>
    /\ UNCHANGED apart

NextStick == try_turnaround_try_walk

SpecStick == InitStick /\ [][NextStick]_vars

\* the stick is off centre and its horizontal component is at least as
\* large as its vertical one
SidewaysDominant == stick # ZERO /\ Abs(stick[1]) >= Abs(stick[2])

\* C14: for every stick vector and facing at most one of try_walk and
\* try_turnaround yields a state; Walk is yielded exactly when the stick is
\* sideways-dominant towards facing, Turnaround exactly when it is
\* sideways-dominant away from facing, and a neutral or vertically-dominant
\* stick yields neither.
C14_WalkTurnaroundExclusive ==
    pc = "done"
    => /\ ~(ev_state[1] # NoState /\ ev_state[2] # NoState)
       /\ ev_state[2] = "Walk"
             <=> SidewaysDominant /\ (stick[1] > 0 <=> facing = "Right")
       /\ ev_state[1] = "Turnaround"
             <=> SidewaysDominant /\ (stick[1] > 0 <=> facing = "Left")
       /\ ~SidewaysDominant => ev_state = << NoState, NoState >>

\* a diagonal stick whose components are equal in size: it counts as
\* sideways, and it points away from facing
C14_Witness ==
    /\ pc = "done"
    /\ stick = << -100, 100 >> /\ facing = "Right"
    /\ ev_state = << "Turnaround", NoState >>

-----------------------------------------------------------------------------
(* Further properties of Spec.                                             *)

\* C15: when a buffered Shield press takes an actor from JumpSquat or
\* IdleAirborne to Airdodge, the direction of the Airdodge is the normalized
\* stick vector that was recorded with the press.
C15_AirdodgeDirectionAtPress ==
    [][ /\ pc = "apply_state_transition"
        /\ state \in { "JumpSquat", "IdleAirborne" }
        /\ last'.applied = "interrupt" /\ state' = "Airdodge"
        => /\ action.kind = "Some" /\ action.value = "Shield"
           /\ airdodge_dir' = normalize_or_zero(action.stick) ]_vars

\* C16: an interrupt takes an actor in Dash to Dash or to Moonwalk only on
\* a buffered gesture whose direction is opposite to the actor's facing, and
\* a natural end takes it to Run with frame-in-state at the dash duration
\* or beyond.
C16_DashGestureOppositeOnly ==
    [][ pc = "apply_state_transition" /\ state = "Dash"
        => /\ last'.applied = "interrupt" /\ state' \in { "Dash", "Moonwalk" }
              => /\ directional_action.kind = "Some"
                 /\ directional_action.value.dir = Flip(facing)
           /\ last'.applied = "end"
              => state' = "Run" /\ frame >= DEFAULT_DASH_DURATION ]_vars

-----------------------------------------------------------------------------
(* The wiring of Spec for a character other than MegaMan.                  *)
(*                                                                         *)
(* update_state_transition_rules of megaman.rs overrides the rule of       *)
(* Attack and takes every other rule from default_for_state (`_ =>`).  A   *)
(* character without an override of its own has the rule of                *)
(* default_for_state in every state.                                       *)

InitDefault ==
    /\ wiring = "default"
    /\ pc = "update_frame_count"
    /\ state = "Idle"
    /\ airdodge_dir = ZERO
    /\ frame = 0
    /\ facing = "Right"
    /\ props = "Idle"
    /\ stick = ZERO
    /\ action = NoInput
    /\ directional_action = NoInput
    /\ held_actions = {}
    /\ previous_held_actions = {}
    /\ previous_stick_positions = << >>
    /\ pressed = {}
    /\ pending = {}
    /\ airborne = FALSE
    /\ collision = "floor"
    /\ ev_state = << >>
    /\ intangible = FALSE
    /\ lemon_count = 0
    /\ budget = MaxEvents
    /\ last = [ applied |-> "none", reset |-> FALSE, interrupt |-> NoState,
                new_input |-> FALSE, from |-> "Idle", frame_was |-> 0 ]
    /\ ApartAtRest

SpecDefault == InitDefault /\ [][Next]_vars

FloorLikeNormal(normal) ==
    /\ normal[2] > 0
    /\ Abs(normal[1]) * 100 <= MAX_FLOOR_SLOPE * normal[2]

\* The airborne states from which an actor lands
LandingStates == { "Airdodge", "IdleAirborne" }

BufferStep(b, c) ==
    \/ c = b
    \/ /\ pc = "age_buffers"
       /\ b.kind = "Some"
       /\ c = IF b.age + 1 < BUFFER_SIZE
              THEN [ b EXCEPT !.age = b.age + 1 ] ELSE NoInput
    \/ /\ pc # "age_buffers"
       /\ c.kind = "None" \/ c.age = 0

\* C19: a buffered action or gesture that is neither consumed nor replaced
\* ages by one on every tick, at age_buffers and nowhere else, and is
\* cleared on the tick its age would reach BUFFER_SIZE; the age of a stored
\* entry is always below BUFFER_SIZE, so an entry is read by the state
\* machine at ages 0 to BUFFER_SIZE - 1 only.
C19_BufferAgesToLimit ==
    [][ /\ BufferStep(action, action')
        /\ BufferStep(directional_action, directional_action')
        /\ pc = "age_buffers" =>
              /\ action.kind = "Some" => action' # action
              /\ directional_action.kind = "Some" =>
                    directional_action' # directional_action
        /\ action'.kind = "Some" => action'.age < BUFFER_SIZE
        /\ directional_action'.kind = "Some" =>
              directional_action'.age < BUFFER_SIZE ]_vars

\* An action reaches the state machine on the last tick of its life
C19_Witness ==
    /\ wiring \in RuleWirings
    /\ pc = "apply_state_transition"
    /\ action.kind = "Some"
    /\ action.age = BUFFER_SIZE - 1

\* C20: buffer_actions_from_gamepad places an action in the buffer, with
\* age 0 and the stick of the tick, only on a tick where the action has
\* just been pressed and was not held on the tick before; an action that
\* stays held, or that is not pressed, is not buffered.
C20_BufferOnRisingEdgeOnly ==
    [][ ( /\ pc = "input_group"
          /\ "buffer_actions_from_gamepad" \in pending
          /\ "buffer_actions_from_gamepad" \notin pending'
          /\ action' # action )
        => /\ action'.kind = "Some"
           /\ action'.age = 0
           /\ action'.stick = stick
           /\ action'.value \in held_actions \ previous_held_actions ]_vars

(***************************************************************************)
(* Specification SpecInput: the systems of InputSet that read the stick,   *)
(* followed on their own with the whole stick history kept.                *)
(*                                                                         *)
(*   InputSet:   age_buffers, update_control_state_from_gamepad, then the  *)
(*               unordered group { detect_smash_input,                     *)
(*               detect_half_circle_input }                                *)
(***************************************************************************)

\* Control::default()
InitInput ==
    /\ wiring = "input"
    /\ pc = "age_buffers"
    /\ state = "Idle"
    /\ airdodge_dir = ZERO
    /\ frame = 0
    /\ facing = "Right"
    /\ props = "Idle"
    /\ stick = ZERO
    /\ action = NoInput
    /\ directional_action = NoInput
    /\ held_actions = {}
    /\ previous_held_actions = {}
    /\ previous_stick_positions = << >>
    /\ pressed = {}
    /\ pending = {}
    /\ airborne = FALSE
    /\ collision = "floor"
    /\ ev_state = << >>
    /\ intangible = FALSE
    /\ lemon_count = 0
    /\ budget = MaxEvents + 1
    /\ last = [ applied |-> "none", reset |-> FALSE, interrupt |-> NoState,
                new_input |-> FALSE, from |-> "Idle", frame_was |-> 0 ]
    /\ ApartAtRest

NextInput ==
    \/ age_buffers
    \/ update_control_state_from_gamepad
    \/ detect_smash_input
    \/ detect_half_circle_input

SpecInput == InitInput /\ [][NextInput]_vars

\* the step of detect_smash_input
SmashStep ==
    /\ pc = "input_group"
    /\ "detect_smash_input" \in pending
    /\ "detect_smash_input" \notin pending'

\* the samples of the history that lie at most n ticks back
LastSamples(n) ==
    { previous_stick_positions[i] :
        i \in { k \in 1..Len(previous_stick_positions) :
                  k > Len(previous_stick_positions) - n } }

\* the stick tilts most in direction d
Dominant(d) ==
    CASE d = "Right" -> stick[1] > 0 /\ stick[1] >= Abs(stick[2])
      [] d = "Left" -> stick[1] < 0 /\ -stick[1] >= Abs(stick[2])
      [] d = "Up" -> stick[2] > 0 /\ stick[2] > Abs(stick[1])
      [] d = "Down" -> stick[2] < 0 /\ -stick[2] > Abs(stick[1])
      [] OTHER -> FALSE

\* C21: detect_smash_input buffers a Smash exactly when the stick is at
\* least 0.99 from the centre and one of the last 4 samples of the history
\* lies at least 0.5 from the stick; the Smash carries the dominant
\* direction of the stick, age 0 and the stick.  A stick that went from the
\* centre to (1, 0) in this tick gives Smash(Right); a stick that the last
\* 4 samples already show at (1, 0) gives none.
C21_SmashIffFastFullTilt ==
    [][ SmashStep =>
          /\ ( directional_action' # directional_action )
               <=> ( /\ 100 * 100 * LengthSq(stick) >= 99 * 99 * 100 * 100
                     /\ \E sample \in LastSamples(4) :
                           4 * DistanceSq(sample, stick) >= 100 * 100 )
          /\ directional_action' # directional_action =>
                /\ directional_action'.kind = "Some"
                /\ directional_action'.age = 0
                /\ directional_action'.stick = stick
                /\ directional_action'.value.type = "Smash"
                /\ Dominant(directional_action'.value.dir)
          /\ ( /\ stick = << 100, 0 >>
               /\ previous_stick_positions # << >>
               /\ previous_stick_positions[Len(previous_stick_positions)] = ZERO )
             => /\ directional_action'.kind = "Some"
                /\ directional_action'.value =
                       [ type |-> "Smash", dir |-> "Right" ]
          /\ ( /\ Len(previous_stick_positions) >= 4
               /\ LastSamples(4) = { stick } )
             => directional_action' = directional_action ]_vars

\* A Smash has just been buffered for a stick that left the centre
C21_Witness ==
    /\ wiring = "input"
    /\ directional_action.kind = "Some"
    /\ directional_action.age = 0
    /\ directional_action.value = [ type |-> "Smash", dir |-> "Right" ]
    /\ previous_stick_positions # << >>
    /\ previous_stick_positions[Len(previous_stick_positions)] = ZERO

\* the step of detect_half_circle_input
HalfCircleStep ==
    /\ pc = "input_group"
    /\ "detect_half_circle_input" \in pending
    /\ "detect_half_circle_input" \notin pending'

\* the step of detect_half_circle_input buffers a gesture
HalfCircleBuffered ==
    /\ HalfCircleStep
    /\ directional_action' # directional_action

\* the stick i - 1 ticks back: the current stick for i = 1
Path(i) ==
    IF i = 1 THEN stick
    ELSE previous_stick_positions[Len(previous_stick_positions) + 2 - i]

\* from Path(i + 1) to Path(i) the stick turned, in the sense rot when the
\* turn has one (a turn of half a circle has none)
Turned(i, rot) ==
    LET cross == Path(i)[1] * Path(i + 1)[2] - Path(i)[2] * Path(i + 1)[1]
        dot == Path(i)[1] * Path(i + 1)[1] + Path(i)[2] * Path(i + 1)[2]
    IN  \/ cross > 0 /\ rot = "Clockwise"
        \/ cross < 0 /\ rot = "CounterClockwise"
        \/ cross = 0 /\ dot < 0

\* C22: a HalfCircle(d, rot) is buffered only when d is the direction of
\* the stick and, some k >= 2 ticks back and within the last 10 samples,
\* the stick was on the side opposite to d, all samples since lie at least
\* 0.90 from the centre, and every step since was a turn in the sense rot:
\* a path that pauses, reverses or leaves the ring buffers none.
C22_HalfCircleOnlyOnSteadyTurn ==
    [][ HalfCircleBuffered =>
          /\ directional_action'.kind = "Some"
          /\ directional_action'.value.type = "HalfCircle"
          /\ directional_action'.value.dir = get_cardinal_direction(stick)
          /\ \E k \in 2..HALF_CIRCLE_MAX_DURATION :
                /\ k <= Len(previous_stick_positions)
                /\ get_cardinal_direction(Path(k + 1))
                       = FlipCardinal(directional_action'.value.dir)
                /\ \A i \in 1..(k + 1) :
                       100 * 100 * LengthSq(Path(i)) >= 90 * 90 * 100 * 100
                /\ \A i \in 1..k : Turned(i, directional_action'.value.rot) ]_vars

\* the stick at a cardinal extreme
Extremes == { << 100, 0 >>, << -100, 0 >>, << 0, 100 >>, << 0, -100 >> }

\* in this tick the stick went from one extreme to the opposite one
Crossing ==
    /\ stick \in Extremes
    /\ previous_stick_positions # << >>
    /\ previous_stick_positions[Len(previous_stick_positions)]
           = << -stick[1], -stick[2] >>

\* C23: on a tick in which the stick goes from one cardinal extreme to the
\* opposite one, detect_half_circle_input buffers nothing and
\* detect_smash_input buffers a Smash, whatever the older samples of the
\* history are: the tick ends with a Smash in the directional buffer.
C23_SingleTickCrossingIsSmash ==
    [][ /\ HalfCircleStep /\ Crossing =>
              /\ directional_action' = directional_action
              /\ previous_stick_positions' = previous_stick_positions
        /\ SmashStep /\ Crossing =>
              /\ directional_action'.kind = "Some"
              /\ directional_action'.age = 0
              /\ directional_action'.value =
                     [ type |-> "Smash", dir |-> get_cardinal_direction(stick) ]
      ]_vars

(***************************************************************************)
(* Specification SpecAccelerate: accelerate_towards (physics.rs) and       *)
(* apply_friction (main.rs), each applied tick after tick to a velocity    *)
(* with a fixed target.  Velocities are in hundredths; the differences     *)
(* drawn are multiples of vectors of length 5 and the accelerations        *)
(* multiples of 5, so that the length and the normalised difference are    *)
(* exact.                                                                  *)
(***************************************************************************)

\* the directions of the difference, as vectors of length 5
Directions ==
    { << 5, 0 >>, << -5, 0 >>, << 0, 5 >>, << 0, -5 >>,
      << 3, 4 >>, << -3, -4 >>, << 4, -3 >>, << -4, 3 >> }

Targets == { ZERO, << 30, 0 >>, << -20, 0 >> }

Accelerations == { 0, 5, 10, 15 }

\* Vec2::length, for a vector whose length is a whole number
Length(v) == CHOOSE n \in 0..(Abs(v[1]) + Abs(v[2])) : n * n = LengthSq(v)

\* accelerate_towards stepping by the acceleration also when the target is
\* nearer than that
accelerated_NoClamp(v, target, acceleration) ==
    LET difference == << target[1] - v[1], target[2] - v[2] >>
    IN  IF difference = ZERO THEN target
        ELSE << v[1] + (difference[1] * acceleration) \div Length(difference),
                v[2] + (difference[2] * acceleration) \div Length(difference) >>

\* accelerate_towards, the velocity it leaves
accelerated(v, target, acceleration) ==
    LET difference == << target[1] - v[1], target[2] - v[2] >>
    IN  IF Length(difference) <= acceleration THEN target
        ELSE << v[1] + (difference[1] * acceleration) \div Length(difference),
                v[2] + (difference[2] * acceleration) \div Length(difference) >>

\* apply_friction, the horizontal velocity it leaves
slowed(f, tv, vx) ==
    IF f = 0 THEN vx
    ELSE IF Abs(tv - vx) <= Abs(f) THEN tv
    ELSE IF vx < tv THEN vx + f
    ELSE vx - f

InitAccelerate ==
    /\ wiring = "accelerate"
    /\ pc \in { "accelerate_towards", "apply_friction" }
    /\ state = "Walk"
    /\ airdodge_dir = ZERO
    /\ frame = 0
    /\ facing = "Right"
    /\ props = "Walk"
    /\ stick = ZERO
    /\ action = NoInput
    /\ directional_action = NoInput
    /\ held_actions = {}
    /\ previous_held_actions = {}
    /\ previous_stick_positions = << >>
    /\ pressed = {}
    /\ pending = {}
    /\ airborne = FALSE
    /\ collision = "floor"
    /\ ev_state = << >>
    /\ intangible = FALSE
    /\ lemon_count = 0
    /\ budget = 0
    /\ last = [ applied |-> "none", reset |-> FALSE, interrupt |-> NoState,
                new_input |-> FALSE, from |-> "Walk", frame_was |-> 0 ]
    /\ \E target \in Targets, d \in Directions, k \in 0..(MaxFrame + 1),
          a \in Accelerations :
          /\ velocity = << target[1] - k * d[1], target[2] - k * d[2] >>
          /\ IF pc = "accelerate_towards"
             THEN /\ ev_accelerate = [ target |-> target, acceleration |-> a ]
                  /\ friction = 0
                  /\ target_velocity = 0
             ELSE /\ ev_accelerate = << >>
                  /\ friction = a
                  /\ target_velocity = target[1]
    /\ position = ZERO
    /\ collider = [ normal |-> << 0, 1 >>, breadth |-> 800,
                    centre |-> << 0, -200 >> ]
    /\ world = << >>
    /\ overlaps = {}
    /\ ev_hitbox = << >>
    /\ ev_set_velocity = << >>
    /\ ev_add_velocity = << >>
    /\ hitboxes = << >>
    /\ pass = << >>
    /\ gravity = FALSE
    /\ pulled = FALSE

accelerate_untouched ==
    << wiring, pc, state, airdodge_dir, facing, props, stick, action,
       directional_action, held_actions, previous_held_actions,
       previous_stick_positions, pressed, pending, airborne, collision,
       ev_state, intangible, lemon_count, budget, ev_accelerate, friction,
       target_velocity, position, collider, entities, gravity, pulled >>

\* what the systems of PhysicsSet that read a queue of commands leave alone
physics_untouched ==
    << wiring, state, airdodge_dir, frame, facing, props, stick, action,
       directional_action, held_actions, previous_held_actions,
       previous_stick_positions, pressed, pending, airborne, collision,
       ev_state, intangible, lemon_count, budget, friction, target_velocity,
       position, collider, entities_kept, gravity, pulled >>

\* accelerate_towards, the velocity it leaves after the events it reads
RECURSIVE accelerated_by(_, _)
accelerated_by(v, events) ==
    IF events = << >> THEN v
    ELSE accelerated_by(accelerated(v, events[1].target,
                                    events[1].acceleration),
                        Tail(events))

\* physics.rs accelerate_towards, for the event of the tick, and in the
\* chain of PhysicsSet for the events of the queue
accelerate_towards ==
    /\ pc = "accelerate_towards"
    /\ \/ /\ wiring = "accelerate"
          /\ velocity' = accelerated(velocity, ev_accelerate.target,
                                     ev_accelerate.acceleration)
          /\ frame' = IF velocity' # velocity THEN frame + 1 ELSE frame
          /\ last' = [ last EXCEPT !.applied = "accelerate_towards",
                                   !.reset = (velocity' # velocity) ]
          /\ UNCHANGED accelerate_untouched
       \/ /\ wiring = "physics"
          /\ velocity' = accelerated_by(velocity, ev_accelerate)
          /\ ev_accelerate' = << >>
          /\ pc' = "add_velocity"
          /\ UNCHANGED << last, ev_set_velocity, ev_add_velocity >>
          /\ UNCHANGED physics_untouched

\* main.rs apply_friction
apply_friction ==
    /\ pc = "apply_friction"
    /\ velocity' = << slowed(friction, target_velocity, velocity[1]),
                      velocity[2] >>
    /\ frame' = IF velocity' # velocity THEN frame + 1 ELSE frame
    /\ last' = [ last EXCEPT !.applied = "apply_friction",
                             !.reset = (velocity' # velocity) ]
    /\ UNCHANGED accelerate_untouched

NextAccelerate == accelerate_towards \/ apply_friction

SpecAccelerate == InitAccelerate /\ [][NextAccelerate]_vars

\* every tick applies the system
SpecAccelerateFair == SpecAccelerate /\ WF_vars(NextAccelerate)

\* the target and the acceleration of the system that is applied
TargetOfTick ==
    IF pc = "accelerate_towards" THEN ev_accelerate.target
    ELSE << target_velocity, velocity[2] >>

AccelerationOfTick ==
    IF pc = "accelerate_towards" THEN ev_accelerate.acceleration ELSE friction

\* the squared distance from a velocity to the target
DistanceToTargetSq(v) == DistanceSq(v, TargetOfTick)

\* C24: one application moves the velocity to the target when the distance
\* is at most the acceleration a, and otherwise straight towards it with
\* the distance reduced by exactly a (never past the target); with a > 0
\* the velocity reaches the target and stays there.
C24_AcceleratesWithoutOvershoot ==
    /\ [][ LET a == AccelerationOfTick
               d == Length(<< TargetOfTick[1] - velocity[1],
                              TargetOfTick[2] - velocity[2] >>)
           IN  /\ d <= a /\ a > 0 => velocity' = TargetOfTick
               /\ d <= a /\ a = 0 => velocity' = velocity
               /\ d > a =>
                     /\ DistanceToTargetSq(velocity') = (d - a) * (d - a)
                     /\ DistanceSq(velocity, velocity') = a * a
               /\ velocity = TargetOfTick => velocity' = velocity ]_vars
    /\ ( AccelerationOfTick > 0 ) => <>[]( velocity = TargetOfTick )

\* the target has been reached in several applications
C24_Witness ==
    /\ wiring = "accelerate"
    /\ velocity = TargetOfTick
    /\ last.reset
    /\ frame >= 2

(***************************************************************************)
(* Specification SpecSweep: apply_velocity (physics.rs) with the position  *)
(* of the actor and the collider followed.  The collider passes through    *)
(* the origin with a normal of length 1 along an axis.                     *)
(***************************************************************************)

AxisNormals == { << 0, 1 >>, << 1, 0 >>, << 0, -1 >> }

\* the components of the velocities drawn
Speeds == (0 - MaxFrame)..MaxFrame

InitSweep ==
    /\ wiring = "sweep"
    /\ pc = "apply_velocity"
    /\ state = "IdleAirborne"
    /\ airdodge_dir = ZERO
    /\ frame = 0
    /\ facing = "Right"
    /\ props = "IdleAirborne"
    /\ stick = ZERO
    /\ action = NoInput
    /\ directional_action = NoInput
    /\ held_actions = {}
    /\ previous_held_actions = {}
    /\ previous_stick_positions = << >>
    /\ pressed = {}
    /\ pending = {}
    /\ airborne = TRUE
    /\ collision = << >>
    /\ ev_state = << >>
    /\ intangible = FALSE
    /\ lemon_count = 0
    /\ budget = 0
    /\ last = [ applied |-> "none", reset |-> FALSE, interrupt |-> NoState,
                new_input |-> FALSE, from |-> "IdleAirborne", frame_was |-> 0 ]
    /\ ev_accelerate = << >>
    /\ friction = 0
    /\ target_velocity = 0
    /\ \E n \in AxisNormals, height \in 0..MaxFrame, along \in { 0, 5 } :
          /\ collider = [ normal |-> n, breadth |-> 8, centre |-> ZERO ]
          /\ position = << height * n[1] + along * n[2],
                           height * n[2] + along * n[1] >>
    /\ velocity \in Speeds \X Speeds
    /\ world = << >>
    /\ overlaps = {}
    /\ ev_hitbox = << >>
    /\ ev_set_velocity = << >>
    /\ ev_add_velocity = << >>
    /\ hitboxes = << >>
    /\ pass = << >>
    /\ gravity = FALSE
    /\ pulled = FALSE

NextSweep == apply_velocity

SpecSweep == InitSweep /\ [][NextSweep]_vars

\* C25: when the sweep of a tick yields a pushback from the collider, the
\* velocity after apply_velocity has no component into the collider
\* (velocity . normal >= 0), wherever on the displacement the plane is
\* crossed, and the Collision event of the tick carries the normal of the
\* collider.
C25_NoVelocityIntoCollider ==
    [][ ( /\ wiring = "sweep"
          /\ pc = "apply_velocity"
          /\ get_pushback(collider, position, velocity) \notin { << >>, << ZERO >> } )
        => /\ Dot(velocity', collider.normal) >= 0
           /\ collision' = << collider.normal >> ]_vars

-----------------------------------------------------------------------------
\* Entities, hits and commands: two fighters and the lemon one of them has
\* shot, with the systems that read HitboxCollision, FighterStateUpdate,
\* SetVelocity and AddVelocity events.  In this part frame counts the ticks.

\* the ticks followed
MaxTicks == 3

FighterEntities == { "fighter_1", "fighter_2" }

LemonEntity == "lemon"

Entities == FighterEntities \cup { LemonEntity }

\* the payload of the lemon's hitbox: percent, and the two knockbacks in
\* tenths; the angle in degrees clockwise from 12 o'clock
LEMON_PERCENT == 3

LEMON_BASE_KNOCKBACK == 1

LEMON_SCALE_KNOCKBACK == 50

LEMON_ANGLE == 45

Body == [ kind |-> "Body" ]

Damage(percent, base_knockback, scale_knockback, angle) ==
    [ kind |-> "Damage", percent |-> percent,
      base_knockback |-> base_knockback,
      scale_knockback |-> scale_knockback, angle |-> angle ]

\* the damage payloads followed: the lemon's, one without base knockback and
\* one without scaling
DamagePurposes ==
    { Damage(LEMON_PERCENT, LEMON_BASE_KNOCKBACK, LEMON_SCALE_KNOCKBACK,
             LEMON_ANGLE),
      Damage(1, 0, 100, 90),
      Damage(0, 20, 0, 0) }

Weights == { 1, 2 }

\* a velocity is a launch (kept in polar form: its direction need not be
\* rational) plus a cartesian part
Cartesian(v) == [ launch |-> << >>, plus |-> v ]

is_fighter(w, e) == e \in DOMAIN w /\ "state" \in DOMAIN w[e]

\* the same, with the launch speed computed before the percent is added
take_damage_BeforeHit(weight, purpose, fighter_percent) ==
    [ percent |-> fighter_percent + purpose.percent,
      launch_speed |-> << 100 * purpose.base_knockback
                              + purpose.scale_knockback * fighter_percent,
                          1000 * weight >> ]

\* fighter.rs take_damage_from_hitbox_collision, one hit: the percent is
\* added, then the launch speed is weight.recip() * (base_knockback +
\* scale_knockback * percent * 0.01), here numerator and denominator in
\* thousandths (the knockbacks are in tenths)
take_damage(weight, purpose, fighter_percent) ==
    LET accumulated == fighter_percent + purpose.percent
    IN  [ percent |-> accumulated,
          launch_speed |-> << 100 * purpose.base_knockback
                                  + purpose.scale_knockback * accumulated,
                              1000 * weight >> ]

\* clockwise degrees from 12 o'clock to the standard form
launch_angle(theta) == 90 - theta

launch_velocity(launch_speed, angle, scale) ==
    [ launch |-> << [ angle |-> launch_angle(angle), speed |-> launch_speed,
                      scale |-> scale ] >>,
      plus |-> ZERO ]

\* the loop of take_damage_from_hitbox_collision over the events read
RECURSIVE damage_taken(_, _, _)
damage_taken(w, hits, sent) ==
    IF hits = << >>
    THEN [ world |-> w, sent |-> sent ]
    ELSE LET hitbox_collision == Head(hits)
             purpose == hitbox_collision.other_hitbox
         IN  IF purpose.kind # "Damage"
             THEN damage_taken(w, Tail(hits), sent)
             ELSE IF ~is_fighter(w, hitbox_collision.target)
             THEN damage_taken(w, Tail(hits), sent)
             ELSE LET fighter == w[hitbox_collision.target]
                      taken == take_damage(fighter.weight, purpose,
                                           fighter.percent)
                  IN  damage_taken(
                          [ w EXCEPT ![hitbox_collision.target].percent =
                                         taken.percent ],
                          Tail(hits),
                          Append(sent,
                                 << hitbox_collision.target,
                                    launch_velocity(taken.launch_speed,
                                                    purpose.angle,
                                                    hitbox_collision.other_scale) >>))

\* the collisions that damage a fighter, in the order they are read
landed(w, hits) ==
    SelectSeq(hits, LAMBDA h : h.other_hitbox.kind = "Damage"
                               /\ is_fighter(w, h.target))

\* observation: the latest launch speed of each target under each payload
launches(seen, hits, sent) ==
    LET keys == { << hits[k].target, hits[k].other_hitbox >> : k \in DOMAIN hits }
        latest(key) == CHOOSE k \in DOMAIN hits :
                          /\ << hits[k].target, hits[k].other_hitbox >> = key
                          /\ \A j \in DOMAIN hits :
                                 << hits[j].target, hits[j].other_hitbox >> = key
                                 => j <= k
    IN  [ key \in DOMAIN seen \cup keys |->
             IF key \in keys
             THEN sent[latest(key)][2].launch[1].speed
             ELSE seen[key] ]

\* the same, with a command for a missing entity restarting every count
update_applied_RestartAll(w, update) ==
    IF is_fighter(w, update[1])
    THEN [ w EXCEPT ![update[1]].state = update[2],
                    ![update[1]].frame = 0 ]
    ELSE [ e \in DOMAIN w |->
              IF is_fighter(w, e) THEN [ w[e] EXCEPT !.frame = 0 ] ELSE w[e] ]

\* update_fighter_state, one event: the state is replaced and the frame
\* count restarts when the query finds the entity, a warning is logged
\* otherwise
update_applied(w, update) ==
    IF is_fighter(w, update[1])
    THEN [ w EXCEPT ![update[1]].state = update[2],
                    ![update[1]].frame = 0 ]
    ELSE w

\* the loop of update_fighter_state over the events read
RECURSIVE fighter_state_updated(_, _)
fighter_state_updated(w, updates) ==
    IF updates = << >>
    THEN w
    ELSE fighter_state_updated(update_applied(w, Head(updates)),
                               Tail(updates))

\* the loop of set_velocity
RECURSIVE velocity_set(_, _)
velocity_set(w, events) ==
    IF events = << >>
    THEN w
    ELSE LET event == Head(events)
         IN  velocity_set(
                 IF event[1] \in DOMAIN w
                 THEN [ w EXCEPT ![event[1]].velocity = event[2] ]
                 ELSE w,
                 Tail(events))

\* the loop of add_velocity
RECURSIVE velocity_added(_, _)
velocity_added(w, events) ==
    IF events = << >>
    THEN w
    ELSE LET event == Head(events)
         IN  velocity_added(
                 IF event[1] \in DOMAIN w
                 THEN [ w EXCEPT ![event[1]].velocity.plus =
                                     << @[1] + event[2][1],
                                        @[2] + event[2][2] >> ]
                 ELSE w,
                 Tail(events))

\* the actor a hitbox group answers to: the lemon's group ignores its owner
actor_of(w, e) == IF "owner" \in DOMAIN w[e] THEN w[e].owner ELSE e

\* a fighter carries a Body hitbox, the lemon its Damage hitbox
hitbox_of(w, e) == IF is_fighter(w, e) THEN Body ELSE w[e].hitbox

\* the combinations of hitbox groups, in the order of the query
GroupPairs ==
    << << "fighter_1", "fighter_2" >>, << "fighter_1", "lemon" >>,
       << "fighter_2", "lemon" >> >>

\* the same, with the groups of one actor tested against each other
is_tested_OwnGroups(w, pair) ==
    /\ pair[1] \in DOMAIN w
    /\ pair[2] \in DOMAIN w

\* two groups are tested against each other when both exist and belong to
\* different actors
is_tested(w, pair) ==
    /\ pair[1] \in DOMAIN w
    /\ pair[2] \in DOMAIN w
    /\ actor_of(w, pair[1]) # actor_of(w, pair[2])

HitboxCollision(w, target, other) ==
    [ target |-> target, other |-> other, other_hitbox |-> hitbox_of(w, other),
      other_scale |-> w[other].scale ]

\* the events of the pairs that are tested and overlap, one for each side
RECURSIVE collisions(_, _, _)
collisions(w, pairs, overlapping) ==
    IF pairs = << >>
    THEN << >>
    ELSE LET pair == Head(pairs)
         IN  ( IF is_tested(w, pair) /\ pair \in overlapping
               THEN << HitboxCollision(w, pair[1], pair[2]),
                       HitboxCollision(w, pair[2], pair[1]) >>
               ELSE << >> )
             \o collisions(w, Tail(pairs), overlapping)

Range(q) == { q[i] : i \in DOMAIN q }

\* the FighterStateUpdate events a tick may bring: none, one, one for the
\* lemon (which is no fighter, and may be gone) before one for a fighter, and
\* two for the same fighter
UpdateBatches ==
    { << >>,
      << << "fighter_1", "Attack" >> >>,
      << << "lemon", "Attack" >> >>,
      << << "lemon", "Idle" >>, << "fighter_1", "Attack" >> >>,
      << << "fighter_1", "Attack" >>, << "fighter_1", "Idle" >> >>,
      << << "fighter_1", "Idle" >>, << "fighter_1", "Attack" >> >> }

\* the AddVelocity events a tick may bring
AddBatches ==
    { << >>,
      << << "lemon", << 1, 0 >> >> >>,
      << << "lemon", << 1, 0 >> >>, << "fighter_1", << 0, 1 >> >> >> }

Fighter(weight) ==
    [ state |-> "Idle", frame |-> 0, percent |-> 0, weight |-> weight,
      velocity |-> Cartesian(ZERO), scale |-> << 1, 1 >> ]

Lemon(owner, direction, purpose) ==
    [ owner |-> owner, hitbox |-> purpose, scale |-> << direction, 1 >>,
      velocity |-> Cartesian(ZERO) ]

InitWorld ==
    /\ wiring = "world"
    /\ pc = "act"
    /\ state = "Idle"
    /\ airdodge_dir = ZERO
    /\ frame = 0
    /\ facing = "Right"
    /\ props = "Idle"
    /\ stick = ZERO
    /\ action = NoInput
    /\ directional_action = NoInput
    /\ held_actions = {}
    /\ previous_held_actions = {}
    /\ previous_stick_positions = << >>
    /\ pressed = {}
    /\ pending = {}
    /\ airborne = FALSE
    /\ collision = "floor"
    /\ ev_state = << >>
    /\ intangible = FALSE
    /\ lemon_count = 0
    /\ budget = 0
    /\ last = << >>
    /\ velocity = ZERO
    /\ ev_accelerate = << >>
    /\ friction = 0
    /\ target_velocity = 0
    /\ position = ZERO
    /\ collider = [ normal |-> << 0, 1 >>, breadth |-> 800,
                    centre |-> << 0, -200 >> ]
    /\ \E weight \in Weights :
          world = [ e \in FighterEntities |->
                       Fighter(IF e = "fighter_1" THEN 1 ELSE weight) ]
    /\ overlaps = {}
    /\ ev_hitbox = << >>
    /\ ev_set_velocity = << >>
    /\ ev_add_velocity = << >>
    /\ hitboxes = << >>
    /\ pass = << >>
    /\ gravity = FALSE
    /\ pulled = FALSE

world_untouched ==
    << wiring, state, airdodge_dir, facing, props, stick, action,
       directional_action, held_actions, previous_held_actions,
       previous_stick_positions, pressed, pending, airborne, collision,
       intangible, lemon_count, budget, velocity, ev_accelerate,
       friction, target_velocity, position, collider, hitboxes, pass,
       gravity, pulled >>

\* the Act systems of a tick: the frame counts advance, a fighter in Attack
\* may shoot the lemon when none is out, and the commands of the tick
\* replace those of the tick before, which every reader has read
act_commands ==
    /\ wiring = "world"
    /\ pc = "act"
    /\ frame < MaxTicks
    /\ frame' = frame + 1
    /\ LET counted == [ e \in DOMAIN world |->
                           IF is_fighter(world, e)
                           THEN [ world[e] EXCEPT !.frame = @ + 1 ]
                           ELSE world[e] ]
       IN  \/ world' = counted
           \/ /\ LemonEntity \notin DOMAIN world
              /\ \E owner \in FighterEntities, direction \in { -1, 1 },
                    purpose \in DamagePurposes :
                    /\ world[owner].state = "Attack"
                    /\ world' = [ e \in Entities |->
                                     IF e = LemonEntity
                                     THEN Lemon(owner, direction, purpose)
                                     ELSE counted[e] ]
    /\ ev_state' \in UpdateBatches
    /\ ev_add_velocity' \in AddBatches
    /\ pc' = "detect_hitbox_overlaps"
    /\ UNCHANGED << last, ev_hitbox, ev_set_velocity >>
    /\ UNCHANGED << overlaps, world_untouched >>

\* hitbox detection: which groups overlap is the geometry's answer
detect_hitbox_overlaps ==
    /\ wiring = "world"
    /\ pc = "detect_hitbox_overlaps"
    /\ \E overlapping \in SUBSET { pair \in Range(GroupPairs) :
                                        /\ pair[1] \in DOMAIN world
                                        /\ pair[2] \in DOMAIN world } :
          /\ overlaps' = overlapping
          /\ ev_hitbox' = collisions(world, GroupPairs, overlapping)
    /\ pc' = "update_fighter_state"
    /\ UNCHANGED << last, frame, ev_state, world, ev_set_velocity, ev_add_velocity >>
    /\ UNCHANGED world_untouched

update_fighter_states ==
    /\ wiring = "world"
    /\ pc = "update_fighter_state"
    /\ world' = fighter_state_updated(world, ev_state)
    /\ pc' = "take_damage_from_hitbox_collision"
    /\ UNCHANGED << last, frame, ev_state, ev_hitbox, ev_set_velocity, ev_add_velocity >>
    /\ UNCHANGED << overlaps, world_untouched >>

take_damage_from_hitbox_collision ==
    /\ wiring = "world"
    /\ pc = "take_damage_from_hitbox_collision"
    /\ LET taken == damage_taken(world, ev_hitbox, ev_set_velocity)
       IN  /\ world' = taken.world
           /\ ev_set_velocity' = taken.sent
           /\ last' = launches(last, landed(world, ev_hitbox),
                               SubSeq(taken.sent, Len(ev_set_velocity) + 1,
                                      Len(taken.sent)))
    /\ pc' = "despawn_collided_projectiles"
    /\ UNCHANGED << frame, ev_state, ev_hitbox, ev_add_velocity >>
    /\ UNCHANGED << overlaps, world_untouched >>

\* projectile.rs: a projectile that is the target of a collision is despawned
despawn_collided_projectiles ==
    /\ wiring = "world"
    /\ pc = "despawn_collided_projectiles"
    /\ LET collided == { ev_hitbox[i].target : i \in DOMAIN ev_hitbox }
                          \cap { e \in DOMAIN world : ~is_fighter(world, e) }
       IN  world' = [ e \in DOMAIN world \ collided |-> world[e] ]
    /\ ev_hitbox' = << >>
    /\ overlaps' = {}
    /\ pc' = "set_velocity"
    /\ UNCHANGED << last, frame, ev_state, ev_set_velocity, ev_add_velocity >>
    /\ UNCHANGED world_untouched

\* set_velocity on the one actor: v.0 = event.1 for each event read
velocity_after_set(v, events) ==
    IF events = << >> THEN v ELSE events[Len(events)]

\* add_velocity on the one actor: v.0 += event.1 for each event read
RECURSIVE velocity_after_added(_, _)
velocity_after_added(v, events) ==
    IF events = << >> THEN v
    ELSE velocity_after_added(<< v[1] + events[1][1], v[2] + events[1][2] >>,
                              Tail(events))

\* physics.rs set_velocity.  In the chain of PhysicsSet it is the first
\* system: the velocity the tick started from and the commands of the tick
\* are noted
set_velocity ==
    /\ pc = "set_velocity"
    /\ \/ /\ wiring = "world"
          /\ world' = velocity_set(world, ev_set_velocity)
          /\ ev_set_velocity' = << >>
          /\ pc' = "add_velocity"
          /\ UNCHANGED << last, frame, ev_state, ev_hitbox, ev_add_velocity >>
          /\ UNCHANGED << overlaps, world_untouched >>
       \/ /\ wiring = "physics"
          /\ velocity' = velocity_after_set(velocity, ev_set_velocity)
          /\ ev_set_velocity' = << >>
          /\ last' = [ last EXCEPT !.velocity = velocity,
                                   !.set = ev_set_velocity,
                                   !.add = ev_add_velocity ]
          /\ pc' = "accelerate_towards"
          /\ UNCHANGED << ev_accelerate, ev_add_velocity >>
          /\ UNCHANGED physics_untouched

\* physics.rs add_velocity
add_velocity ==
    /\ pc = "add_velocity"
    /\ \/ /\ wiring = "world"
          /\ world' = velocity_added(world, ev_add_velocity)
          /\ pc' = "act"
          /\ UNCHANGED << last, frame, ev_state, ev_hitbox, ev_set_velocity,
                          ev_add_velocity >>
          /\ UNCHANGED << overlaps, world_untouched >>
       \/ /\ wiring = "physics"
          /\ velocity' = velocity_after_added(velocity, ev_add_velocity)
          /\ ev_add_velocity' = << >>
          /\ pc' = "accelerate_from_gravity"
          /\ UNCHANGED << last, ev_accelerate, ev_set_velocity >>
          /\ UNCHANGED physics_untouched

NextWorld ==
    \/ act_commands
    \/ detect_hitbox_overlaps
    \/ update_fighter_states
    \/ take_damage_from_hitbox_collision
    \/ despawn_collided_projectiles
    \/ set_velocity
    \/ add_velocity

SpecWorld == InitWorld /\ [][NextWorld]_vars

\* the damaging collisions of the tick that the step is about to read
Landed == landed(world, ev_hitbox)

\* C26: when a fighter takes a damaging hit, the percent of the hit is added
\* to its accumulated percent first, and the launch speed that is sent is
\* (base_knockback + scale_knockback * accumulated percent * 0.01) / weight
\* with the percent after the addition; no fighter's percent ever decreases
\* and a hit with the same payload on the same target is never launched
\* slower than the one before
C26_PercentAddedBeforeLaunchSpeed ==
    [][ ( /\ wiring = "world"
          /\ pc = "take_damage_from_hitbox_collision" )
        => /\ \A f \in FighterEntities : world'[f].percent >= world[f].percent
           /\ Len(ev_set_velocity') = Len(ev_set_velocity) + Len(Landed)
           /\ \A k \in DOMAIN Landed :
                  LET hit == Landed[k]
                      f == hit.target
                      purpose == hit.other_hitbox
                      sent == ev_set_velocity'[Len(ev_set_velocity) + k]
                      speed == sent[2].launch[1].speed
                  IN  /\ sent[1] = f
                      /\ world'[f].percent = world[f].percent + purpose.percent
                      /\ speed[1] * 1000 * world[f].weight
                         = speed[2] * (100 * purpose.base_knockback
                                       + purpose.scale_knockback
                                         * world'[f].percent)
                      /\ << f, purpose >> \in DOMAIN last
                         => speed[1] * last[<< f, purpose >>][2]
                            >= last[<< f, purpose >>][1] * speed[2] ]_vars

\* a fighter has taken the lemon's hit twice and was launched from 6 percent
C26_Witness ==
    /\ wiring = "world"
    /\ pc = "despawn_collided_projectiles"
    /\ \E f \in FighterEntities :
          LET key == << f, Damage(LEMON_PERCENT, LEMON_BASE_KNOCKBACK,
                                  LEMON_SCALE_KNOCKBACK, LEMON_ANGLE) >>
          IN  /\ world[f].percent = 2 * LEMON_PERCENT
              /\ key \in DOMAIN last
              /\ last[key][1] = 100 * LEMON_BASE_KNOCKBACK
                                 + LEMON_SCALE_KNOCKBACK * 2 * LEMON_PERCENT
              /\ Len(ev_set_velocity) > 0

\* an event between two groups of one actor
OwnHit(w, h) == actor_of(w, h.target) = actor_of(w, h.other)

LastNaming(events, e) ==
    LET naming == { i \in DOMAIN events : events[i][1] = e }
    IN  IF naming = {} THEN 0
        ELSE CHOOSE i \in naming : \A j \in naming : j <= i

\* the sum of the vectors of the events that name entity e
RECURSIVE SumNaming(_, _)
SumNaming(events, e) ==
    IF events = << >>
    THEN ZERO
    ELSE LET rest == SumNaming(Tail(events), e)
         IN  IF Head(events)[1] = e
             THEN << Head(events)[2][1] + rest[1],
                     Head(events)[2][2] + rest[2] >>
             ELSE rest

\* C30: a FighterStateUpdate, SetVelocity or AddVelocity that names an
\* entity the query does not find (the lemon, which is no fighter, or a
\* lemon that has been despawned) is dropped: no entity appears or
\* disappears, every entity keeps the components no event names it for, the
\* system runs to its end, and the other events of the tick are applied in
\* their order (the last state and the last set velocity win, the added
\* velocities add up)
C30_CommandForMissingEntityDropped ==
    [][ /\ ( wiring = "world" /\ pc = "update_fighter_state" )
           => /\ pc' = "take_damage_from_hitbox_collision"
              /\ DOMAIN world' = DOMAIN world
              /\ \A e \in DOMAIN world :
                    LET i == LastNaming(ev_state, e)
                    IN  world'[e] =
                           IF is_fighter(world, e) /\ i > 0
                           THEN [ world[e] EXCEPT !.state = ev_state[i][2],
                                                  !.frame = 0 ]
                           ELSE world[e]
        /\ ( wiring = "world" /\ pc = "set_velocity" )
           => /\ pc' = "add_velocity"
              /\ DOMAIN world' = DOMAIN world
              /\ \A e \in DOMAIN world :
                    LET i == LastNaming(ev_set_velocity, e)
                    IN  world'[e] =
                           IF i > 0
                           THEN [ world[e] EXCEPT
                                      !.velocity = ev_set_velocity[i][2] ]
                           ELSE world[e]
        /\ ( wiring = "world" /\ pc = "add_velocity" )
           => /\ pc' = "act"
              /\ DOMAIN world' = DOMAIN world
              /\ \A e \in DOMAIN world :
                    LET added == SumNaming(ev_add_velocity, e)
                    IN  world'[e] =
                           [ world[e] EXCEPT
                                 !.velocity.plus = << @[1] + added[1],
                                                      @[2] + added[2] >> ]
      ]_vars

\* the lemon has hit and is gone; of a state update for it followed by one
\* for a fighter, and of a velocity for it followed by one for a fighter,
\* the fighter's have been applied
C30_Witness ==
    /\ wiring = "world"
    /\ pc = "act"
    /\ LemonEntity \notin DOMAIN world
    /\ world["fighter_2"].percent > 0
    /\ ev_state = << << "lemon", "Idle" >>, << "fighter_1", "Attack" >> >>
    /\ world["fighter_1"].state = "Attack"
    /\ world["fighter_1"].frame = 0
    /\ ev_add_velocity
          = << << "lemon", << 1, 0 >> >>, << "fighter_1", << 0, 1 >> >> >>
    /\ world["fighter_1"].velocity.plus[2] > 0

-----------------------------------------------------------------------------
\* Overlap geometry: Shape::nearest_pass on two hitboxes.  Coordinates and
\* radii are integers; a distance is kept as sqrt(root) - minus with root a
\* fraction << numerator, denominator >>, so that no square root is rounded.
\* The midpoint of a NearestPass is read by nothing and is left out.

Minus(p, q) == << p[1] - q[1], p[2] - q[2] >>

Plus(p, q) == << p[1] + q[1], p[2] + q[2] >>

\* comparison of two fractions with positive denominators
frac_le(x, y) == x[1] * y[2] <= y[1] * x[2]

Circle(r) == [ kind |-> "Circle", r |-> r ]

Pill(major_radius, minor_radius) ==
    [ kind |-> "Pill", major_radius |-> major_radius,
      minor_radius |-> minor_radius ]

\* a transform: translation, scale.y, and the rotation as five times the
\* image of the unit vector (0, 1)
Transform(translation, rotation, scale_y) ==
    [ translation |-> translation, rotation |-> rotation,
      scale_y |-> scale_y ]

NearestPass(root, minus) == [ root |-> root, minus |-> minus ]

\* the same, with touching shapes not colliding
is_collision_Strict(nearest) ==
    /\ nearest.minus >= 0
    /\ nearest.root[1] < nearest.minus * nearest.minus * nearest.root[2]

\* NearestPass::is_collision: distance <= 0.0
is_collision(nearest) ==
    /\ nearest.minus >= 0
    /\ nearest.root[1] <= nearest.minus * nearest.minus * nearest.root[2]

\* the radius and the two endpoints of a pill
get_pill_geometric_data(major_radius, minor_radius, transform) ==
    LET a == major_radius * transform.scale_y
        rotated_a == << (a * transform.rotation[1]) \div 5,
                        (a * transform.rotation[2]) \div 5 >>
    IN  << minor_radius * transform.scale_y,
           Plus(transform.translation, rotated_a),
           Minus(transform.translation, rotated_a) >>

cross_product(v, w) == v[1] * w[2] - v[2] * w[1]

\* 0 <= numerator / denominator <= 1, for a denominator that is not 0
in_unit(numerator, denominator) ==
    IF denominator > 0
    THEN 0 <= numerator /\ numerator <= denominator
    ELSE denominator <= numerator /\ numerator <= 0

\* the same, with only the first segment's range tested when the segments
\* diverge
intersection_of_line_segments_OneRange(p1, p2, q1, q2) ==
    LET p == p1
        r == Minus(p2, p)
        q == q1
        s == Minus(q2, q)
        r_cross_s == cross_product(r, s)
        q_minus_p_cross_r == cross_product(Minus(q, p), r)
        r_dot_r == Dot(r, r)
        t0 == Dot(Minus(q, p), r)
        t1 == Dot(Minus(Plus(q, s), p), r)
    IN  IF r_cross_s = 0 /\ q_minus_p_cross_r = 0
        THEN /\ r_dot_r # 0
             /\ \/ in_unit(t0, r_dot_r)
                \/ in_unit(t1, r_dot_r)
                \/ (t0 < 0 /\ t1 > r_dot_r)
                \/ (t1 < 0 /\ t0 > r_dot_r)
        ELSE IF r_cross_s = 0
        THEN FALSE
        ELSE in_unit(cross_product(Minus(q, p), s), r_cross_s)

\* intersection_of_line_segments(..).is_some(); a division by 0 gives a NaN
\* or an infinity, which is in no range
intersection_of_line_segments(p1, p2, q1, q2) ==
    LET p == p1
        r == Minus(p2, p)
        q == q1
        s == Minus(q2, q)
        r_cross_s == cross_product(r, s)
        q_minus_p_cross_r == cross_product(Minus(q, p), r)
        r_dot_r == Dot(r, r)
        t0 == Dot(Minus(q, p), r)
        t1 == Dot(Minus(Plus(q, s), p), r)
    IN  IF r_cross_s = 0 /\ q_minus_p_cross_r = 0
        THEN /\ r_dot_r # 0
             /\ \/ in_unit(t0, r_dot_r)
                \/ in_unit(t1, r_dot_r)
                \/ (t0 < 0 /\ t1 > r_dot_r)
                \/ (t1 < 0 /\ t0 > r_dot_r)
        ELSE IF r_cross_s = 0
        THEN FALSE
        ELSE /\ in_unit(cross_product(Minus(q, p), s), r_cross_s)
             /\ in_unit(cross_product(Minus(p, q), r), 0 - r_cross_s)

\* the smallest of a set of fractions
frac_min(S) == CHOOSE x \in S : \A y \in S : frac_le(x, y)

circle_circle(r1, t1, r2, t2) ==
    NearestPass(<< LengthSq(Minus(t1.translation, t2.translation)), 1 >>,
                r1 * t1.scale_y + r2 * t2.scale_y)

\* the circle is at c with radius r1, the pill has radius r2 and ends a, b
circle_pill(r1, c, r2, a, b) ==
    LET d_a == LengthSq(Minus(c, a))
        d_b == LengthSq(Minus(c, b))
        length_squared == LengthSq(Minus(b, a))
        t == Dot(Minus(c, a), Minus(b, a))
        d_p == IF length_squared # 0 /\ in_unit(t, length_squared)
               THEN { << d_a * length_squared - t * t, length_squared >> }
               ELSE {}
    IN  NearestPass(frac_min({ << d_a, 1 >>, << d_b, 1 >> } \cup d_p),
                    r1 + r2)

\* std::cmp::min of passes that carry the same radii
min_pass(S) ==
    CHOOSE x \in S : \A y \in S : frac_le(x.root, y.root)

pill_pill(r1, a1, b1, r2, a2, b2) ==
    IF intersection_of_line_segments(a1, b1, a2, b2)
    THEN NearestPass(<< 0, 1 >>, r1 + r2)
    ELSE min_pass({ circle_pill(r1, a1, r2, a2, b2),
                    circle_pill(r1, b1, r2, a2, b2),
                    circle_pill(r2, a2, r1, a1, b1),
                    circle_pill(r2, b2, r1, a1, b1) })

\* Shape::nearest_pass
nearest_pass(s1, t1, s2, t2) ==
    LET pill_1 == get_pill_geometric_data(s1.major_radius, s1.minor_radius, t1)
        pill_2 == get_pill_geometric_data(s2.major_radius, s2.minor_radius, t2)
    IN  CASE s1.kind = "Circle" /\ s2.kind = "Circle" ->
                 circle_circle(s1.r, t1, s2.r, t2)
          [] s1.kind = "Circle" /\ s2.kind = "Pill" ->
                 circle_pill(s1.r, t1.translation, pill_2[1], pill_2[2],
                             pill_2[3])
          [] s1.kind = "Pill" /\ s2.kind = "Circle" ->
                 circle_pill(s2.r, t2.translation, pill_1[1], pill_1[2],
                             pill_1[3])
          [] s1.kind = "Pill" /\ s2.kind = "Pill" ->
                 pill_pill(pill_1[1], pill_1[2], pill_1[3], pill_2[1],
                           pill_2[2], pill_2[3])

\* the shapes, places and turns followed; a pill is at most 20 long, which
\* keeps the products of the fractions within 32 bits
Shapes ==
    { Circle(r) : r \in { 1, 2 } }
        \cup { Pill(major, minor) : major \in { 5, 10 }, minor \in { 1, 3 } }

Places == { -10, -5, 0, 2, 3, 5, 15 }

Rotations == { << 0, 5 >>, << -5, 0 >>, << -3, 4 >>, << 4, 3 >> }

Scales == { 1, 2 }

InitGeometry ==
    /\ wiring = "geometry"
    /\ pc = "detect_hitbox_overlaps"
    /\ state = "Idle"
    /\ airdodge_dir = ZERO
    /\ frame = 0
    /\ facing = "Right"
    /\ props = "Idle"
    /\ stick = ZERO
    /\ action = NoInput
    /\ directional_action = NoInput
    /\ held_actions = {}
    /\ previous_held_actions = {}
    /\ previous_stick_positions = << >>
    /\ pressed = {}
    /\ pending = {}
    /\ airborne = FALSE
    /\ collision = "floor"
    /\ ev_state = << >>
    /\ intangible = FALSE
    /\ lemon_count = 0
    /\ budget = 0
    /\ last = << >>
    /\ velocity = ZERO
    /\ ev_accelerate = << >>
    /\ friction = 0
    /\ target_velocity = 0
    /\ position = ZERO
    /\ collider = [ normal |-> << 0, 1 >>, breadth |-> 800,
                    centre |-> << 0, -200 >> ]
    /\ world = << >>
    /\ overlaps = {}
    /\ ev_hitbox = << >>
    /\ ev_set_velocity = << >>
    /\ ev_add_velocity = << >>
    /\ \E s1 \in Shapes, s2 \in Shapes, x \in Places, y \in Places,
          rotation_1 \in Rotations, rotation_2 \in Rotations,
          scale_1 \in Scales, scale_2 \in Scales :
          /\ s1.kind = "Circle" => rotation_1 = << 0, 5 >>
          /\ s2.kind = "Circle" => rotation_2 = << 0, 5 >>
          /\ s1.kind = "Pill" => s1.major_radius * scale_1 <= 10
          /\ s2.kind = "Pill" => s2.major_radius * scale_2 <= 10
          /\ hitboxes =
                << [ shape |-> s1,
                     transform |-> Transform(ZERO, rotation_1, scale_1) ],
                   [ shape |-> s2,
                     transform |-> Transform(<< x, y >>, rotation_2,
                                             scale_2) ] >>
    /\ pass = << >>
    /\ gravity = FALSE
    /\ pulled = FALSE

\* detect_hitbox_overlaps on the pair, in the order of the query and in the
\* other order
nearest_passes ==
    /\ wiring = "geometry"
    /\ pc = "detect_hitbox_overlaps"
    /\ pass' = << nearest_pass(hitboxes[1].shape, hitboxes[1].transform,
                               hitboxes[2].shape, hitboxes[2].transform),
                  nearest_pass(hitboxes[2].shape, hitboxes[2].transform,
                               hitboxes[1].shape, hitboxes[1].transform) >>
    /\ pc' = "despawn_empty_hitbox_groups"
    /\ UNCHANGED << frame, ev_state, last, world, overlaps, ev_hitbox,
                    ev_set_velocity, ev_add_velocity, hitboxes >>
    /\ UNCHANGED << wiring, state, airdodge_dir, facing, props, stick, action,
                    directional_action, held_actions, previous_held_actions,
                    previous_stick_positions, pressed, pending, airborne,
                    collision, intangible, lemon_count, budget, velocity,
                    ev_accelerate, friction, target_velocity, position,
                    collider, gravity, pulled >>

NextGeometry == nearest_passes

SpecGeometry == InitGeometry /\ [][NextGeometry]_vars

\* the two hitboxes are circles, and their NearestPass has been taken
CirclesPassed ==
    /\ wiring = "geometry"
    /\ pass # << >>
    /\ hitboxes[1].shape.kind = "Circle"
    /\ hitboxes[2].shape.kind = "Circle"

\* the radius of a circle in the world
WorldRadius(h) == h.shape.r * h.transform.scale_y

CentresApartSq ==
    LengthSq(Minus(hitboxes[1].transform.translation,
                   hitboxes[2].transform.translation))

\* C28: for two circles the nearest-pass distance is the distance between
\* the centres minus the two radii (1 for unit circles 3 apart), is_collision
\* holds exactly when that distance is <= 0, touching circles included, and
\* the distance is the same in the other order
C28_CircleDistanceAndCollision ==
    CirclesPassed =>
        LET sum == WorldRadius(hitboxes[1]) + WorldRadius(hitboxes[2])
        IN  /\ pass[1].root[2] = 1
            /\ pass[1].root[1] = CentresApartSq
            /\ pass[1].minus = sum
            /\ ( CentresApartSq = 9 /\ sum = 2 )
               => pass[1].root[1] = (1 + pass[1].minus) * (1 + pass[1].minus)
            /\ is_collision(pass[1]) <=> CentresApartSq <= sum * sum
            /\ pass[2] = pass[1]

\* two circles of radius 2 and 1 that touch, 3 apart: a collision
C28_Witness ==
    /\ CirclesPassed
    /\ WorldRadius(hitboxes[1]) = 2
    /\ WorldRadius(hitboxes[2]) = 1
    /\ hitboxes[2].transform.translation = << 3, 0 >>
    /\ is_collision(pass[1])

\* the two hitboxes are pills, and their NearestPass has been taken
PillsPassed ==
    /\ wiring = "geometry"
    /\ pass # << >>
    /\ hitboxes[1].shape.kind = "Pill"
    /\ hitboxes[2].shape.kind = "Pill"

\* the radius and the ends of the core segment of hitbox i
Core(i) ==
    get_pill_geometric_data(hitboxes[i].shape.major_radius,
                            hitboxes[i].shape.minor_radius,
                            hitboxes[i].transform)

\* on which side of the line from a to b the point c lies
Side(a, b, c) ==
    LET area == cross_product(Minus(b, a), Minus(c, a))
    IN  IF area > 0 THEN 1 ELSE IF area < 0 THEN -1 ELSE 0

\* c lies on the segment from a to b
OnSegment(a, b, c) ==
    /\ Side(a, b, c) = 0
    /\ Dot(Minus(c, a), Minus(c, b)) <= 0

\* the segments a1 b1 and a2 b2 have a point in common
SegmentsMeet(a1, b1, a2, b2) ==
    \/ /\ Side(a1, b1, a2) * Side(a1, b1, b2) < 0
       /\ Side(a2, b2, a1) * Side(a2, b2, b1) < 0
    \/ OnSegment(a1, b1, a2)
    \/ OnSegment(a1, b1, b2)
    \/ OnSegment(a2, b2, a1)
    \/ OnSegment(a2, b2, b1)

\* the square of the distance from c to the segment a b, as a fraction
PointToSegmentSq(c, a, b) ==
    LET along == Dot(Minus(c, a), Minus(b, a))
        whole == LengthSq(Minus(b, a))
        area == cross_product(Minus(b, a), Minus(c, a))
    IN  IF along <= 0 THEN << LengthSq(Minus(c, a)), 1 >>
        ELSE IF along >= whole THEN << LengthSq(Minus(c, b)), 1 >>
        ELSE << area * area, whole >>

\* C29: when the core segments of two pills have a point in common
\* (crossing, touching at an end, or overlapping on one line, one inside the
\* other in either order included) the nearest-pass distance is -(r1 + r2)
\* and the pair collides; otherwise the distance is the smallest of the
\* distances of the four ends to the other core segment, less r1 + r2
C29_PillDistance ==
    PillsPassed =>
        LET c1 == Core(1)
            c2 == Core(2)
            ends == { PointToSegmentSq(c1[2], c2[2], c2[3]),
                      PointToSegmentSq(c1[3], c2[2], c2[3]),
                      PointToSegmentSq(c2[2], c1[2], c1[3]),
                      PointToSegmentSq(c2[3], c1[2], c1[3]) }
        IN  /\ pass[1].minus = c1[1] + c2[1]
            /\ IF SegmentsMeet(c1[2], c1[3], c2[2], c2[3])
               THEN /\ pass[1].root[1] = 0
                    /\ is_collision(pass[1])
               ELSE /\ \E e \in ends : /\ frac_le(e, pass[1].root)
                                       /\ frac_le(pass[1].root, e)
                    /\ \A e \in ends : frac_le(pass[1].root, e)

\* one core segment lies inside the other, which is passed second
C29_Witness ==
    /\ PillsPassed
    /\ hitboxes[1].shape.major_radius = 5
    /\ hitboxes[2].shape.major_radius = 10
    /\ hitboxes[1].transform.scale_y = 1
    /\ hitboxes[2].transform.scale_y = 1
    /\ hitboxes[1].transform.rotation = << 0, 5 >>
    /\ hitboxes[2].transform.rotation = << 0, 5 >>
    /\ hitboxes[2].transform.translation = << 0, 2 >>
    /\ pass[1].root[1] = 0
    /\ is_collision(pass[1])

\* C31: whenever apply_state_transition evaluates the actor, the rule the
\* actor carries is the rule of its current state: after an interrupt, a
\* natural end, a landing or an airborne reaction, the next evaluation does
\* not use the rule of the state that was left
C31_RuleOfCurrentState ==
    ( wiring = "rule" /\ pc = "apply_state_transition" ) => props = state

\* the actor landed on the tick before and is evaluated in LandCrouch
C31_Witness ==
    /\ wiring = "rule"
    /\ pc = "apply_state_transition"
    /\ state = "LandCrouch"
    /\ props = "LandCrouch"
    /\ frame = 1

-----------------------------------------------------------------------------
(* Gravity and the state at the time it is applied.                        *)

\* C32: gravity never changes the velocity of an actor on a tick in which its
\* state is Airdodge at the time gravity is applied, from the first tick of
\* the Airdodge to its last: once accelerate_from_gravity has run on an actor
\* in Airdodge, its velocity was not changed by it.
C32_NoGravityInAirdodge ==
    ( wiring = "rule" /\ pc = "apply_velocity" /\ state = "Airdodge" )
        => ~pulled

-----------------------------------------------------------------------------
(* Specification SpecPhysics: the tick of fighter.rs with the physics of   *)
(* the actor followed, under a neutral input.                              *)
(*                                                                         *)
(*   update_frame_count, InputSet                                          *)
(*   Act:        transition_from_*, compute_common_side_effects            *)
(*   PhysicsSet: set_velocity, accelerate_towards, add_velocity,           *)
(*               accelerate_from_gravity, apply_velocity                   *)
(*   React:      land, go_airborne, update_fighter_state, update_gravity,  *)
(*               remove_intangible, add_intangible                         *)
(*                                                                         *)
(* Lengths are in hundredths.  The stage is the floor of main.rs, a plane  *)
(* with the normal (0, 1), through the origin here.                        *)

\* heights above the floor the actor starts from
Heights == { 0, 30, 50, 90, 100 }

InitPhysics ==
    /\ wiring = "physics"
    /\ pc = "update_frame_count"
    /\ state \in { "Idle", "IdleAirborne", "JumpSquat", "Airdodge" }
    /\ airdodge_dir = ZERO
    /\ frame = 0
    /\ facing \in { "Left", "Right" }
    /\ props = state
    /\ stick = ZERO
    /\ action = NoInput
    /\ directional_action = NoInput
    /\ held_actions \in { {}, { "Jump" } }
    /\ held_actions = { "Jump" } => state = "JumpSquat"
    /\ previous_held_actions = held_actions
    /\ previous_stick_positions = << >>
    /\ pressed = {}
    /\ pending = {}
    /\ airborne = ~is_grounded(state)
    /\ collision = IF airborne THEN "none" ELSE "floor"
    /\ ev_state = << >>
    /\ intangible = FALSE
    /\ lemon_count = 0
    /\ budget = 0
    /\ last = [ applied |-> "none", reset |-> FALSE, interrupt |-> NoState,
                new_input |-> FALSE, from |-> state, frame_was |-> 0,
                velocity |-> ZERO, set |-> << >>, add |-> << >> ]
    /\ velocity = ZERO
    /\ ev_accelerate = << >>
    /\ friction = 0
    /\ target_velocity = 0
    /\ \E height \in Heights :
          /\ is_grounded(state) => height = 0
          /\ position = << 0, height >>
    /\ collider = [ normal |-> << 0, 1 >>, breadth |-> 200,
                    centre |-> ZERO ]
    /\ world = << >>
    /\ overlaps = {}
    /\ ev_hitbox = << >>
    /\ ev_set_velocity = << >>
    /\ ev_add_velocity = << >>
    /\ hitboxes = << >>
    /\ pass = << >>
    \* FighterBundle has no Gravity: an actor that has just been spawned
    \* (Idle, the default state) carries none before the first update_gravity
    /\ gravity \in BOOLEAN
    /\ gravity # is_affected_by_gravity(state) => state = "Idle"
    /\ pulled = FALSE

NextPhysics ==
    \/ update_frame_count
    \/ age_buffers
    \/ update_control_state_from_gamepad
    \/ detect_smash_input
    \/ transition_from_land_crouch
    \/ transition_from_airdodge
    \/ transition_from_jumpsquat
    \/ compute_common_side_effects
    \/ set_velocity
    \/ accelerate_towards
    \/ add_velocity
    \/ accelerate_from_gravity
    \/ apply_velocity
    \/ land
    \/ go_airborne
    \/ update_fighter_state
    \/ update_state_transition_rules
    \/ update_gravity
    \/ update_intangible

SpecPhysics == InitPhysics /\ [][NextPhysics]_vars

\* the velocity of the tick with the commands of the state machine and the
\* gravity of the tick applied to it
CommandedVelocity ==
    LET commanded == velocity_after_added(
                         velocity_after_set(last.velocity, last.set),
                         last.add)
    IN  IF gravity
        THEN << commanded[1], commanded[2] + FighterProperties.gravity >>
        ELSE commanded

\* C33: within one tick the velocity set and add commands are applied, then
\* gravity, then the acceleration toward the target velocity, then the
\* sweep: the velocity accelerate_towards reads already includes the set and
\* add commands and the gravity of the tick.
C33_AccelerationAfterCommandsAndGravity ==
    ( wiring = "physics" /\ pc = "accelerate_towards" )
        => velocity = CommandedVelocity

-----------------------------------------------------------------------------
(* Specification SpecStage: apply_velocity (physics.rs) on a stage of two  *)
(* colliders, in the order the query yields them.  last keeps the position *)
(* and the velocity the sweep started from.                                *)

\* the colliders a stage is made of: a floor and a ceiling through the
\* origin, a wall through the origin, a floor below
StageColliders ==
    { [ normal |-> << 0, 1 >>, breadth |-> 8, centre |-> ZERO ],
      [ normal |-> << 1, 0 >>, breadth |-> 8, centre |-> ZERO ],
      [ normal |-> << 0, -1 >>, breadth |-> 8, centre |-> ZERO ],
      [ normal |-> << 0, 1 >>, breadth |-> 8, centre |-> << 0, -1 >> ] }

\* the coordinates the actor starts at and the components of its velocity
StagePlaces == { -1, 0, 1, 2 }

InitStage ==
    /\ wiring = "stage"
    /\ pc = "apply_velocity"
    /\ state = "IdleAirborne"
    /\ airdodge_dir = ZERO
    /\ frame = 0
    /\ facing = "Right"
    /\ props = "IdleAirborne"
    /\ stick = ZERO
    /\ action = NoInput
    /\ directional_action = NoInput
    /\ held_actions = {}
    /\ previous_held_actions = {}
    /\ previous_stick_positions = << >>
    /\ pressed = {}
    /\ pending = {}
    /\ airborne = TRUE
    /\ collision = << >>
    /\ ev_state = << >>
    /\ intangible = FALSE
    /\ lemon_count = 0
    /\ budget = 0
    /\ last = [ applied |-> "none", reset |-> FALSE, interrupt |-> NoState,
                new_input |-> FALSE, from |-> "IdleAirborne", frame_was |-> 0,
                position |-> ZERO, velocity |-> ZERO ]
    /\ ev_accelerate = << >>
    /\ friction = 0
    /\ target_velocity = 0
    /\ collider = [ normal |-> << 0, 1 >>, breadth |-> 8, centre |-> ZERO ]
    /\ position \in StagePlaces \X StagePlaces
    /\ velocity \in Speeds \X Speeds
    /\ \E first \in StageColliders, second \in StageColliders :
          /\ first # second
          /\ world = << first, second >>
    /\ overlaps = {}
    /\ ev_hitbox = << >>
    /\ ev_set_velocity = << >>
    /\ ev_add_velocity = << >>
    /\ hitboxes = << >>
    /\ pass = << >>
    /\ gravity = FALSE
    /\ pulled = FALSE

NextStage == apply_velocity

SpecStage == InitStage /\ [][NextStage]_vars

\* the colliders of the stage the sweep from p by d crosses: those that
\* give a pushback
Crossed(p, d) ==
    { i \in DOMAIN world : get_pushback(world[i], p, d) # << >> }

\* the first of them in the order of the iteration
FirstCrossed(p, d) ==
    CHOOSE i \in Crossed(p, d) : \A j \in Crossed(p, d) : i <= j

\* C34: when the sweep of a tick crosses more than one collider, the
\* pushback applied to the position and the velocity and the normal of the
\* Collision event are those of the first such collider in the order of the
\* iteration; the others contribute nothing to the position, the velocity
\* or the events of the tick.
C34_FirstColliderOnly ==
    [][ ( wiring = "stage" /\ Crossed(position, velocity) # {} ) =>
           LET c == world[FirstCrossed(position, velocity)]
               pushback == get_pushback(c, position, velocity)[1]
               into == Dot(c.normal, pushback)
           IN  /\ position' = << position[1] + velocity[1] + pushback[1],
                                 position[2] + velocity[2] + pushback[2] >>
               /\ velocity' = << velocity[1] + into * c.normal[1],
                                 velocity[2] + into * c.normal[2] >>
               /\ collision' = IF pushback = ZERO THEN << >>
                               ELSE << c.normal >> ]_vars

\* a sweep has crossed both colliders of the stage, which give different
\* pushbacks, and the second one is other than a plane the first one put
\* the actor on
C34_Witness ==
    /\ wiring = "stage"
    /\ frame = 1
    /\ Crossed(last.position, last.velocity) = { 1, 2 }
    /\ get_pushback(world[1], last.position, last.velocity)
          # get_pushback(world[2], last.position, last.velocity)
    /\ get_pushback(world[2], last.position, last.velocity)[1] # ZERO
    /\ collision = << world[1].normal >>

-----------------------------------------------------------------------------
(* The Intangible marker.                                                  *)

\* C35: after the intangibility update of every tick an actor carries the
\* Intangible marker if and only if its state is Airdodge and its frame in
\* state lies in the intangible window; an actor that has left Airdodge in
\* the middle of the window is not flagged from the update of that tick on.
C35_IntangibleFollowsStateAndFrame ==
    /\ []( ( wiring = "rule" /\ pc = "update_frame_count" ) =>
              ( intangible <=> /\ state = "Airdodge"
                               /\ AIRDODGE_INTANGIBLE_START <= frame
                               /\ frame <= AIRDODGE_INTANGIBLE_END ) )
    /\ [][ ( wiring = "rule" /\ pc = "update_intangible"
             /\ state # "Airdodge" ) => ~intangible' ]_vars

\* an actor that landed in the middle of the window has lost the marker in
\* the update of that tick
C35_Witness ==
    /\ wiring = "rule" /\ pc = "update_frame_count"
    /\ state = "LandCrouch" /\ frame = 0
    /\ last.from = "Airdodge"
    /\ last.frame_was \in AIRDODGE_INTANGIBLE_START..AIRDODGE_INTANGIBLE_END
    /\ ~intangible

-----------------------------------------------------------------------------
(* Specification SpecLemons: the interrupt-window machine of an actor that *)
(* has lemons out, in Idle or at the start of an Attack.                   *)

\* changes of the input and of the environment followed from InitLemons
LemonEvents == 1

InitLemons ==
    /\ wiring = "rule"
    /\ pc = "update_frame_count"
    /\ state \in { "Idle", "Attack" }
    /\ airdodge_dir = ZERO
    /\ frame = 0
    /\ facing = "Right"
    /\ props = state
    /\ stick = ZERO
    /\ action = NoInput
    /\ directional_action = NoInput
    /\ held_actions \in IF state = "Attack" THEN { {}, { "Attack" } }
                                          ELSE { {} }
    /\ previous_held_actions = held_actions
    /\ previous_stick_positions = << >>
    /\ pressed = {}
    /\ pending = {}
    /\ airborne = FALSE
    /\ collision = "floor"
    /\ ev_state = << >>
    /\ intangible = FALSE
    /\ lemon_count \in 0..MAX_LEMONS_AT_A_TIME
    /\ budget = LemonEvents
    /\ last = [ applied |-> "none", reset |-> FALSE, interrupt |-> NoState,
                new_input |-> FALSE, from |-> "Idle", frame_was |-> 0 ]
    /\ velocity = ZERO
    /\ ev_accelerate = << >>
    /\ friction = 0
    /\ target_velocity = 0
    /\ position = ZERO
    /\ collider = [ normal |-> << 0, 1 >>, breadth |-> 800,
                    centre |-> << 0, -200 >> ]
    /\ world = [ i \in 1..lemon_count |-> [ owner |-> "actor" ] ]
    /\ overlaps = {}
    /\ ev_hitbox = << >>
    /\ ev_set_velocity = << >>
    /\ ev_add_velocity = << >>
    /\ hitboxes = << >>
    /\ pass = << >>
    /\ gravity = TRUE
    /\ pulled = FALSE

SpecLemons == InitLemons /\ [][Next]_vars

\* C36: at every tick the projectile counter of an attacking actor is
\* between 0 and the cap of 3 and equals the number of its live
\* projectiles: no projectile is spawned while the counter is 3, a buffered
\* Attack does not re-enter Attack past the IASA frame while the counter is
\* 3, and every despawn of a projectile decrements the counter by exactly 1.
C36_LemonCountIsLiveLemons ==
    /\ []( wiring = "rule" =>
              /\ lemon_count \in 0..MAX_LEMONS_AT_A_TIME
              /\ lemon_count = Len(world) )
    /\ [][ wiring = "rule" =>
              /\ lemon_count = MAX_LEMONS_AT_A_TIME
                    => Len(world') <= Len(world)
              /\ ( pc = "apply_state_transition" /\ state = "Attack"
                   /\ lemon_count = MAX_LEMONS_AT_A_TIME )
                    => ~ ( state' = "Attack" /\ frame' = 0 )
              /\ Len(world') < Len(world)
                    => /\ Len(world') = Len(world) - 1
                       /\ lemon_count' = lemon_count - 1 ]_vars

\* with three lemons out, an Attack is past its IASA frame with an Attack
\* buffered and has not been entered again
C36_Witness ==
    /\ wiring = "rule" /\ pc = "turnaround_facing"
    /\ state = "Attack" /\ frame > ATTACK_IASA
    /\ action.kind = "Some" /\ action.value = "Attack"
    /\ lemon_count = MAX_LEMONS_AT_A_TIME
    /\ Len(world) = MAX_LEMONS_AT_A_TIME

-----------------------------------------------------------------------------
(* No Dash out of a run, under SpecRun.                                    *)

\* the states of a run
RunStates == { "Run", "RunEnd", "RunTurnaround" }

\* the states an actor is in when it has just left Run
AfterRun ==
    { "RunEnd", "RunTurnaround", "JumpSquat", "EnterCrouch", "IdleAirborne" }

\* a Smash to the left or to the right is buffered
SmashBuffered ==
    /\ directional_action.kind = "Some"
    /\ directional_action.value.type = "Smash"
    /\ horizontal(directional_action.value.dir) # "None"

\* C37: no transition leads from Run, RunEnd or RunTurnaround to Dash,
\* whatever gesture is buffered; an actor that leaves Run is in RunEnd,
\* RunTurnaround or a state that is not of a run, and no transition leads
\* from the state it is in on the tick after leaving Run to Dash.
C37_NoDashOutOfRun ==
    [][ wiring = "rule" =>
          /\ state \in RunStates => state' # "Dash"
          /\ ( state = "Run" /\ state' # "Run" ) => state' \in AfterRun
          /\ state \in AfterRun => state' # "Dash" ]_vars

\* a Smash against the facing was performed in Run, and the actor has left
\* Run for a state of the run with the Smash still buffered
C37_Witness ==
    /\ wiring = "rule" /\ pc = "turnaround_facing"
    /\ last.from = "Run" /\ state \in RunStates \ { "Run" }
    /\ SmashBuffered
    /\ horizontal(directional_action.value.dir) # facing

-----------------------------------------------------------------------------
(* An actor at rest on the floor, under SpecPhysics.                       *)

\* the actor is on the plane of the floor collider, within its breadth
OnFloor ==
    /\ position[2] = collider.centre[2]
    /\ 2 * Abs(position[1] - collider.centre[1]) <= collider.breadth

\* the actor rests on the floor: it is on it in a grounded state that is
\* subject to gravity
Resting ==
    /\ wiring = "physics"
    /\ OnFloor
    /\ is_grounded(state) /\ is_affected_by_gravity(state)

\* C38: an actor resting on a floor collider with no upward velocity
\* command receives a pushback on every tick: the sweep leaves its position
\* on the plane, does not flag it Airborne, and its grounded state is not
\* turned into IdleAirborne.
C38_RestingActorKeptOnFloor ==
    /\ [][ ( pc = "apply_velocity" /\ Resting /\ velocity[2] <= 0 )
              => /\ position'[2] = position[2]
                 /\ collision' # "none"
                 /\ ~airborne' ]_vars
    /\ [][ ( pc = "update_fighter_state" /\ Resting )
              => state' # "IdleAirborne" ]_vars

-----------------------------------------------------------------------------
(* Specification SpecDodge: the entities, hits and commands of SpecWorld   *)
(* with the second fighter in an Airdodge, at its start or at the start of *)
(* its intangible window.                                                  *)

InitDodge ==
    /\ wiring = "world"
    /\ pc = "act"
    /\ state = "Idle"
    /\ airdodge_dir = ZERO
    /\ frame = 0
    /\ facing = "Right"
    /\ props = "Idle"
    /\ stick = ZERO
    /\ action = NoInput
    /\ directional_action = NoInput
    /\ held_actions = {}
    /\ previous_held_actions = {}
    /\ previous_stick_positions = << >>
    /\ pressed = {}
    /\ pending = {}
    /\ airborne = FALSE
    /\ collision = "floor"
    /\ ev_state = << >>
    /\ intangible = FALSE
    /\ lemon_count = 0
    /\ budget = 0
    /\ last = << >>
    /\ velocity = ZERO
    /\ ev_accelerate = << >>
    /\ friction = 0
    /\ target_velocity = 0
    /\ position = ZERO
    /\ collider = [ normal |-> << 0, 1 >>, breadth |-> 800,
                    centre |-> << 0, -200 >> ]
    /\ \E weight \in Weights, f \in { 0, AIRDODGE_INTANGIBLE_START } :
          world = [ e \in FighterEntities |->
                       IF e = "fighter_1"
                       THEN Fighter(1)
                       ELSE [ Fighter(weight) EXCEPT !.state = "Airdodge",
                                                     !.frame = f ] ]
    /\ overlaps = {}
    /\ ev_hitbox = << >>
    /\ ev_set_velocity = << >>
    /\ ev_add_velocity = << >>
    /\ hitboxes = << >>
    /\ pass = << >>
    /\ gravity = FALSE
    /\ pulled = FALSE

SpecDodge == InitDodge /\ [][NextWorld]_vars

\* fighter f is intangible on this tick: in Airdodge within the window
Dodging(f) == is_intangible(world[f].state, world[f].frame)

\* C39: a hitbox collision whose target is an actor that is intangible on
\* that tick changes neither the target's accumulated percent nor its
\* velocity: no SetVelocity is sent for it and set_velocity leaves its
\* velocity as it was.
C39_IntangibleTargetUnharmed ==
    [][ wiring = "world" =>
          \A f \in FighterEntities :
             Dodging(f) =>
                /\ pc = "take_damage_from_hitbox_collision"
                      => /\ world'[f].percent = world[f].percent
                         /\ \A k \in DOMAIN ev_set_velocity' :
                               k > Len(ev_set_velocity)
                                  => ev_set_velocity'[k][1] # f
                /\ pc = "set_velocity"
                      => world'[f].velocity = world[f].velocity ]_vars

-----------------------------------------------------------------------------
(* Landing, under SpecPhysicsFair: the schedule runs every system of every *)
(* tick, so a step that is possible is eventually taken.                   *)

SpecPhysicsFair == SpecPhysics /\ WF_vars(NextPhysics)

\* at the start of a tick the actor has just become IdleAirborne over the
\* floor collider, carries Gravity and is not moving upwards
Falling ==
    /\ wiring = "physics" /\ pc = "update_frame_count"
    /\ state = "IdleAirborne" /\ frame = 0
    /\ gravity /\ velocity[2] <= 0
    /\ position[2] >= collider.centre[2]
    /\ 2 * Abs(position[1] - collider.centre[1]) <= collider.breadth

\* C40: an actor in IdleAirborne above a floor collider, within its
\* breadth, with neutral input and under gravity eventually lands: the tick
\* of the floor collision puts it in LandCrouch, it leaves LandCrouch for
\* Idle when the land-crouch duration has elapsed, and from its landing on
\* it is never in IdleAirborne again.
C40_FallingActorLandsAndStays ==
    /\ Falling ~> ( state = "LandCrouch" )
    /\ ( wiring = "physics" /\ state = "LandCrouch" ) ~> ( state = "Idle" )
    /\ []( ( wiring = "physics" /\ state = "LandCrouch" )
              => []( state # "IdleAirborne" ) )
    /\ [][ wiring = "physics" =>
              /\ ( pc = "update_fighter_state" /\ state = "IdleAirborne"
                   /\ collision = "floor" ) => state' = "LandCrouch"
              /\ ( state = "LandCrouch" /\ state' # "LandCrouch" )
                    => /\ state' = "Idle"
                       /\ frame = FighterProperties.land_crouch_duration ]_vars

\* the actor has landed, crouched for the land-crouch duration, and stands
\* in Idle on the plane with gravity pulling
C40_Witness ==
    /\ wiring = "physics" /\ pc = "land"
    /\ state = "Idle" /\ frame = MaxFrame
    /\ last.from = "LandCrouch"
    /\ OnFloor /\ pulled /\ ~airborne

====
